---- MODULE Spec2Model ----
(***************************************************************************)
(* Streaming event reconstruction of claude-code-streamlit.                *)
(*                                                                         *)
(*   process_events         src/streamlit_app.py 395-547  (live encoding)  *)
(*   process_native_events  src/streamlit_app.py 289-376  (replay)         *)
(*   stream_worker          src/streamlit_app.py 381-392  (producer)       *)
(*   streaming loop         src/streamlit_app.py 1266-1478 (consumer)      *)
(*   stream_job             src/backend_client.py 95-108   (transport)     *)
(*                                                                         *)
(* Python strings are sequences of one-character strings, so that blank    *)
(* (whitespace only) and empty text differ.  None is the empty option      *)
(* <<>>, a present value v is <<v>>.                                       *)
(***************************************************************************)
EXTENDS Integers, Sequences, FiniteSets, TLC

VARIABLES
    entry,            \* which entry point of the script runs
    sessions,         \* st.session_state.sessions
    session_id,       \* st.session_state.session_id (option)
    messages,         \* st.session_state.messages
    is_streaming,     \* st.session_state.is_streaming
    cancel_requested, \* st.session_state.cancel_requested
    pe_input,         \* process_events: the elements of `events` iterated so far
    pe,               \* process_events: locals messages/current_text/current_tools/pending_tool
    pe_pc,            \* process_events: "idle" | "loop" | "returned"
    nat_input,        \* process_native_events: the records iterated so far
    nat,              \* process_native_events: locals messages/pending_tool_results
    nat_pc,           \* process_native_events: "idle" | "loop" | "returned" | "reparsed"
    reparsed,         \* what a second call on the same log returned
    received,         \* events client.stream_job has yielded to the worker so far
    w_pc,             \* stream_worker: "idle" | "iter" | "sentinel" | "break" | "except",
                      \* and returned: "finished" | "stopped" | "failed"
    event_queue,      \* queue.Queue shared by worker and consumer
    stop_event,       \* threading.Event
    loop,             \* streaming loop locals
    c_pc,             \* streaming loop position
    cancel_job_result, \* what client.cancel_job did at the last cancel click of
                      \* the job: "none" (no click) | "ok" | "raised"
    lines,            \* stream_job: the lines resp.iter_lines has produced so far
    yielded,          \* stream_job: the values the generator has yielded so far
    sj_pc             \* stream_job: "idle" | "iter" | "closed"

vars == <<entry, sessions, session_id, messages, is_streaming, cancel_requested,
          pe_input, pe, pe_pc, nat_input, nat, nat_pc, reparsed,
          received, w_pc, event_queue, stop_event, loop, c_pc, cancel_job_result,
          lines, yielded, sj_pc>>

session_vars == <<sessions, session_id, messages, is_streaming, cancel_requested>>
pe_vars      == <<pe_input, pe, pe_pc>>
nat_vars     == <<nat_input, nat, nat_pc, reparsed>>
stream_vars  == <<received, w_pc, event_queue, stop_event, loop, c_pc, cancel_job_result>>
sj_vars      == <<lines, yielded, sj_pc>>

(***************************************************************************)
(* Bounds of the model.                                                    *)
(***************************************************************************)
MaxEvents    == 4   \* length of the list given to process_events
MaxRecords   == 4   \* length of the log given to process_native_events
MaxTransport == 3   \* events the transport delivers during one job
MaxLines     == 3   \* lines the response of one stream_job call carries

(***************************************************************************)
(* Strings.                                                                *)
(***************************************************************************)
None == <<>>
Some(v) == <<v>>

\* str.strip() leaves nothing: every character is whitespace.
IsBlank(s) == \A i \in DOMAIN s : s[i] \in {" ", "\n"}

RECURSIVE Concat(_)
\* concatenation of a sequence of strings, in order
Concat(ss) == IF ss = <<>> THEN <<>> ELSE Head(ss) \o Concat(Tail(ss))

RECURSIVE Join(_, _)
\* sep.join(parts)
Join(sep, parts) ==
    IF parts = <<>> THEN <<>>
    ELSE IF Len(parts) = 1 THEN Head(parts)
    ELSE Head(parts) \o sep \o Join(sep, Tail(parts))

IsPrefix(s, t) == Len(s) <= Len(t) /\ SubSeq(t, 1, Len(s)) = s

(***************************************************************************)
(* Wire records.  Every record of one kind has the same fields; a field    *)
(* the JSON object does not carry holds the default the code's .get uses.  *)
(***************************************************************************)
\* the content of a tool_result block: a string or a list of sub-blocks
StrContent(s)   == [is_list |-> FALSE, str |-> s, items |-> <<>>]
ListContent(it) == [is_list |-> TRUE, str |-> <<>>, items |-> it]
\* a sub-block: a dict with a text field, or something that is no dict
Item(t)  == [is_dict |-> TRUE, text |-> t]
NonDict  == [is_dict |-> FALSE, text |-> <<>>]

NoContent == StrContent(<<>>)
NoInput   == <<>>

Block(t, text, tid, content, id, name, input) ==
    [type |-> t, text |-> text, tool_use_id |-> tid, content |-> content,
     id |-> id, name |-> name, input |-> input]
TextBlock(t)            == Block("text", t, "", NoContent, "", "tool", NoInput)
ToolResultBlock(tid, c) == Block("tool_result", <<>>, tid, c, "", "tool", NoInput)
ToolUseBlock(n, id, in) == Block("tool_use", <<>>, "", NoContent, id, n, in)

NoInner == [type |-> "", cb_type |-> "", name |-> "tool", id |-> "",
            delta_type |-> "", text |-> <<>>, partial_json |-> <<>>]

Event(t) == [type |-> t, subtype |-> "", session_id |-> "", content |-> <<>>,
             event |-> NoInner, cost_usd |-> None, input_tokens |-> 0,
             output_tokens |-> 0, text |-> <<>>]

EvInit(sid)      == [Event("system") EXCEPT !.subtype = "init", !.session_id = sid]
EvAssistant(bs)  == [Event("assistant") EXCEPT !.content = bs]
EvUser(bs)       == [Event("user") EXCEPT !.content = bs]
EvToolStart(n, i) ==
    [Event("stream_event") EXCEPT
        !.event = [NoInner EXCEPT !.type = "content_block_start",
                                  !.cb_type = "tool_use", !.name = n, !.id = i]]
EvTextStart ==
    [Event("stream_event") EXCEPT
        !.event = [NoInner EXCEPT !.type = "content_block_start", !.cb_type = "text"]]
EvTextDelta(t) ==
    [Event("stream_event") EXCEPT
        !.event = [NoInner EXCEPT !.type = "content_block_delta",
                                  !.delta_type = "text_delta", !.text = t]]
EvJsonDelta(p) ==
    [Event("stream_event") EXCEPT
        !.event = [NoInner EXCEPT !.type = "content_block_delta",
                                  !.delta_type = "input_json_delta",
                                  !.partial_json = p]]
EvResult(sid, cost, in, out) ==
    [Event("result") EXCEPT !.session_id = sid, !.cost_usd = cost,
                            !.input_tokens = in, !.output_tokens = out]
EvError(t)  == [Event("error") EXCEPT !.text = t]
EvStderr(t) == [Event("stderr") EXCEPT !.text = t]
EvDone      == Event("done")

(***************************************************************************)
(* Formatting.                                                             *)
(***************************************************************************)
DigitChars == <<"0", "1", "2", "3", "4", "5", "6", "7", "8", "9">>

RECURSIVE IntStr(_)
\* str(n) of a natural number
IntStr(n) == IF n < 10 THEN <<DigitChars[n + 1]>>
             ELSE IntStr(n \div 10) \o <<DigitChars[(n % 10) + 1]>>

\* f"${cost:.4f}"; cost_usd is carried in ten-thousandths of a dollar, the
\* precision the format keeps
FormatCost(c) ==
    <<"$">> \o IntStr(c \div 10000) \o <<".">>
            \o <<DigitChars[((c \div 1000) % 10) + 1], DigitChars[((c \div 100) % 10) + 1],
                 DigitChars[((c \div 10) % 10) + 1], DigitChars[(c % 10) + 1]>>

\* the cost_parts list of a result event and its " | ".join
cost_parts(ev) ==
    (IF ev.cost_usd # None THEN <<FormatCost(ev.cost_usd[1])>> ELSE <<>>)
    \o (IF ev.input_tokens # 0
        THEN <<(<<"i", "n", ":">> \o IntStr(ev.input_tokens))>> ELSE <<>>)
    \o (IF ev.output_tokens # 0
        THEN <<(<<"o", "u", "t", ":">> \o IntStr(ev.output_tokens))>> ELSE <<>>)

cost_info_of(ev) ==
    IF cost_parts(ev) # <<>> THEN Some(Join(<<" ", "|", " ">>, cost_parts(ev))) ELSE None

RECURSIVE ItemTexts(_)
\* [item.get("text", "") for item in content if isinstance(item, dict)]
ItemTexts(items) ==
    IF items = <<>> THEN <<>>
    ELSE (IF Head(items).is_dict THEN <<Head(items).text>> ELSE <<>>)
         \o ItemTexts(Tail(items))

\* the result text of a tool_result block
result_content(block) ==
    IF block.content.is_list THEN Join(<<"\n">>, ItemTexts(block.content.items))
    ELSE block.content.str

(***************************************************************************)
(* The conversation model.                                                 *)
(***************************************************************************)
ToolCall(n, i, in, r) == [name |-> n, id |-> i, input_str |-> in, result |-> r]
Turn(r, c, tb, ci) == [role |-> r, content |-> c, tool_blocks |-> tb, cost_info |-> ci]

\* add_session without the membership test
add_session_no_dedup(ss, sid) == IF sid # "" THEN Append(ss, sid) ELSE ss

\* add_session: the list after add_session(sid)
add_session(ss, sid) ==
    IF sid # "" /\ \A i \in DOMAIN ss : ss[i] # sid THEN Append(ss, sid) ELSE ss

(***************************************************************************)
(* process_events: one operator per branch of the loop body.               *)
(***************************************************************************)
pe_init == [messages |-> <<>>, current_text |-> <<>>, current_tools |-> <<>>,
            pending_tool |-> None]

RECURSIVE BlockTexts(_)
\* the texts of the blocks of type "text", in block order
BlockTexts(blocks) ==
    IF blocks = <<>> THEN <<>>
    ELSE (IF Head(blocks).type = "text" THEN <<Head(blocks).text>> ELSE <<>>)
         \o BlockTexts(Tail(blocks))

pe_assistant(s, ev) ==
    [s EXCEPT !.current_text = @ \o Concat(BlockTexts(ev.content))]

\* pe_tool_result without the branch for a result with nothing pending
pe_tool_result_drops_orphan(s, block) ==
    IF s.pending_tool # None
    THEN [s EXCEPT
            !.current_tools =
                Append(@, [s.pending_tool[1] EXCEPT !.result = result_content(block)]),
            !.pending_tool = None]
    ELSE s

pe_tool_result(s, block) ==
    IF s.pending_tool # None
    THEN [s EXCEPT
            !.current_tools =
                Append(@, [s.pending_tool[1] EXCEPT !.result = result_content(block)]),
            !.pending_tool = None]
    ELSE [s EXCEPT
            !.current_tools =
                Append(@, ToolCall("tool", "", <<>>, result_content(block)))]

RECURSIVE pe_user_blocks(_, _)
pe_user_blocks(s, blocks) ==
    IF blocks = <<>> THEN s
    ELSE pe_user_blocks(
            IF Head(blocks).type = "tool_result" THEN pe_tool_result(s, Head(blocks))
            ELSE s,
            Tail(blocks))

pe_user(s, ev) == pe_user_blocks(s, ev.content)

\* pe_tool_use_start that overwrites the pending tool call
pe_tool_use_start_no_flush(s, cb) ==
    [s EXCEPT !.pending_tool = Some(ToolCall(cb.name, cb.id, <<>>, <<>>))]

pe_tool_use_start(s, cb) ==
    [s EXCEPT
        !.current_tools = IF s.pending_tool # None THEN Append(@, s.pending_tool[1])
                          ELSE @,
        !.pending_tool = Some(ToolCall(cb.name, cb.id, <<>>, <<>>))]

pe_text_delta(s, delta) == [s EXCEPT !.current_text = @ \o delta.text]

\* pe_input_json_delta that opens a call for a fragment with nothing pending
pe_input_json_delta_opens_call(s, delta) ==
    IF s.pending_tool # None
    THEN [s EXCEPT !.pending_tool[1].input_str = @ \o delta.partial_json]
    ELSE [s EXCEPT !.pending_tool = Some(ToolCall("tool", "", delta.partial_json, <<>>))]

pe_input_json_delta(s, delta) ==
    IF s.pending_tool # None
    THEN [s EXCEPT !.pending_tool[1].input_str = @ \o delta.partial_json]
    ELSE s

pe_stream_event(s, ev) ==
    LET inner == ev.event IN
    IF inner.type = "content_block_start"
    THEN IF inner.cb_type = "tool_use" THEN pe_tool_use_start(s, inner) ELSE s
    ELSE IF inner.type = "content_block_delta"
    THEN IF inner.delta_type = "text_delta" THEN pe_text_delta(s, inner)
         ELSE IF inner.delta_type = "input_json_delta" THEN pe_input_json_delta(s, inner)
         ELSE s
    ELSE s

\* "if pending_tool: current_tools.append(pending_tool); pending_tool = None"
pe_flush_pending(s) ==
    IF s.pending_tool # None
    THEN [s EXCEPT !.current_tools = Append(@, s.pending_tool[1]), !.pending_tool = None]
    ELSE s

\* pe_result without the reset of the two buffers
pe_result_keeps_buffers(s, ev) ==
    LET f == pe_flush_pending(s) IN
    IF f.current_text # <<>> \/ f.current_tools # <<>>
    THEN [f EXCEPT
            !.messages = Append(@, Turn("assistant", f.current_text, f.current_tools,
                                        cost_info_of(ev)))]
    ELSE f

\* pe_result that resets the tool list and not the text
pe_result_keeps_text(s, ev) ==
    LET f == pe_flush_pending(s) IN
    IF f.current_text # <<>> \/ f.current_tools # <<>>
    THEN [f EXCEPT
            !.messages = Append(@, Turn("assistant", f.current_text, f.current_tools,
                                        cost_info_of(ev))),
            !.current_tools = <<>>]
    ELSE f

pe_result(s, ev) ==
    LET f == pe_flush_pending(s) IN
    IF f.current_text # <<>> \/ f.current_tools # <<>>
    THEN [f EXCEPT
            !.messages = Append(@, Turn("assistant", f.current_text, f.current_tools,
                                        cost_info_of(ev))),
            !.current_text = <<>>,
            !.current_tools = <<>>]
    ELSE f

\* the prefix of f"\u26a0\ufe0f {text}" (the warning sign is written "!")
WarningMarker == <<"!", " ">>

\* pe_error that emits the buffered text with the diagnostic
pe_error_flushes_text(s, ev) ==
    IF ev.text # <<>>
    THEN [s EXCEPT
            !.messages = Append(@, Turn("system", WarningMarker \o ev.text, <<>>, None)),
            !.current_text = <<>>]
    ELSE s

pe_error(s, ev) ==
    IF ev.text # <<>>
    THEN [s EXCEPT !.messages = Append(@, Turn("system", WarningMarker \o ev.text, <<>>, None))]
    ELSE s

\* pe_done that emits the Turn without looking at the buffers
pe_done_always_emits(s) ==
    LET f == pe_flush_pending(s) IN
    [f EXCEPT
        !.messages = Append(@, Turn("assistant", f.current_text, f.current_tools, None))]

pe_done(s) ==
    LET f == pe_flush_pending(s) IN
    IF f.current_text # <<>> \/ f.current_tools # <<>>
    THEN [f EXCEPT
            !.messages = Append(@, Turn("assistant", f.current_text, f.current_tools, None))]
    ELSE f

\* the body of "for ev in events"
pe_step(s, ev) ==
    IF ev.type = "system" /\ ev.subtype = "init" THEN s
    ELSE IF ev.type = "assistant" THEN pe_assistant(s, ev)
    ELSE IF ev.type = "user" THEN pe_user(s, ev)
    ELSE IF ev.type = "stream_event" THEN pe_stream_event(s, ev)
    ELSE IF ev.type = "result" THEN pe_result(s, ev)
    ELSE IF ev.type \in {"error", "stderr"} THEN pe_error(s, ev)
    ELSE IF ev.type = "done" THEN pe_done(s)
    ELSE s

\* pe_final that drops a tool call still pending at the end of the list
pe_final_drops_pending(s) ==
    IF s.current_text # <<>> \/ s.current_tools # <<>>
    THEN [s EXCEPT
            !.messages = Append(@, Turn("assistant", s.current_text, s.current_tools, None))]
    ELSE s

\* the statements after the loop
pe_final(s) ==
    LET f == pe_flush_pending(s) IN
    IF f.current_text # <<>> \/ f.current_tools # <<>>
    THEN [f EXCEPT
            !.messages = Append(@, Turn("assistant", f.current_text, f.current_tools, None))]
    ELSE f

RECURSIVE pe_fold(_, _)
\* "for ev in events" over a whole list
pe_fold(s, evs) == IF evs = <<>> THEN s ELSE pe_fold(pe_step(s, Head(evs)), Tail(evs))

\* the return value of one call
process_events(events) == pe_final(pe_fold(pe_init, events)).messages

\* the session state after an event: system init and result record the id
sessions_after(ss, ev) ==
    IF (ev.type = "system" /\ ev.subtype = "init") \/ ev.type = "result"
    THEN add_session(ss, ev.session_id) ELSE ss

session_id_after(cur, ev) ==
    IF ((ev.type = "system" /\ ev.subtype = "init") \/ ev.type = "result")
       /\ ev.session_id # ""
    THEN Some(ev.session_id) ELSE cur

(***************************************************************************)
(* process_native_events.  A replay record carries its content either as   *)
(* a string or as a list of blocks.  pending_tool_results is a dict: a     *)
(* sequence of key/value pairs in insertion order.                         *)
(***************************************************************************)
Record(t, sid, is_list, str, blocks) ==
    [type |-> t, sessionId |-> sid, is_list |-> is_list, str |-> str, blocks |-> blocks]
RecUserText(sid, t)    == Record("user", sid, FALSE, t, <<>>)
RecUserBlocks(sid, bs) == Record("user", sid, TRUE, <<>>, bs)
RecAssistant(sid, bs)  == Record("assistant", sid, TRUE, <<>>, bs)
RecQueueOp(sid)        == Record("queue-operation", sid, FALSE, <<>>, <<>>)

RECURSIVE JsonPairs(_)
JsonPairs(input) ==
    IF input = <<>> THEN <<>>
    ELSE <<(<<"\"", Head(input).k, "\"", ":", " ">> \o IntStr(Head(input).v))>>
         \o JsonPairs(Tail(input))

\* json.dumps(input, ensure_ascii=False) of a dict of integer values
JsonDumps(input) == <<"{">> \o Join(<<",", " ">>, JsonPairs(input)) \o <<"}">>

DictHas(d, key) == \E i \in DOMAIN d : d[i].key = key
DictGet(d, key, default) ==
    IF DictHas(d, key) THEN d[CHOOSE i \in DOMAIN d : d[i].key = key].value ELSE default
\* d[key] = value: a present key keeps its place
DictSet(d, key, value) ==
    IF DictHas(d, key)
    THEN [i \in DOMAIN d |-> IF d[i].key = key THEN [key |-> key, value |-> value] ELSE d[i]]
    ELSE Append(d, [key |-> key, value |-> value])
DictDel(d, key) == SelectSeq(d, LAMBDA e : e.key # key)

nat_init == [messages |-> <<>>, pending_tool_results |-> <<>>]

RECURSIVE nat_store_results(_, _)
\* the loop over the blocks of a user record whose content is a list
nat_store_results(d, blocks) ==
    IF blocks = <<>> THEN d
    ELSE nat_store_results(
            IF Head(blocks).type = "tool_result"
            THEN DictSet(d, Head(blocks).tool_use_id, result_content(Head(blocks)))
            ELSE d,
            Tail(blocks))

\* nat_user that emits a Turn for a blank string too
nat_user_keeps_blank(s, rec) ==
    IF ~rec.is_list
    THEN [s EXCEPT !.messages = Append(@, Turn("user", rec.str, <<>>, None))]
    ELSE [s EXCEPT !.pending_tool_results = nat_store_results(@, rec.blocks)]

nat_user(s, rec) ==
    IF ~rec.is_list /\ ~IsBlank(rec.str)
    THEN [s EXCEPT !.messages = Append(@, Turn("user", rec.str, <<>>, None))]
    ELSE IF rec.is_list
    THEN [s EXCEPT !.pending_tool_results = nat_store_results(@, rec.blocks)]
    ELSE s

\* nat_tool_use that reads the result and leaves the entry in the map
nat_tool_use_keeps_entry(d, block) ==
    [call |-> ToolCall(block.name, block.id, JsonDumps(block.input),
                       DictGet(d, block.id, <<>>)),
     dict |-> d]

\* one tool_use block: the ToolCall and the dict after the pop
nat_tool_use(d, block) ==
    [call |-> ToolCall(block.name, block.id, JsonDumps(block.input),
                       DictGet(d, block.id, <<>>)),
     dict |-> DictDel(d, block.id)]

RECURSIVE nat_assistant_blocks(_, _)
\* the loop over the blocks of an assistant record: text, tool_blocks, dict
nat_assistant_blocks(acc, blocks) ==
    IF blocks = <<>> THEN acc
    ELSE nat_assistant_blocks(
            IF Head(blocks).type = "text"
            THEN [acc EXCEPT !.text = @ \o Head(blocks).text]
            ELSE IF Head(blocks).type = "tool_use"
            THEN LET r == nat_tool_use(acc.dict, Head(blocks)) IN
                 [acc EXCEPT !.tool_blocks = Append(@, r.call), !.dict = r.dict]
            ELSE acc,
            Tail(blocks))

nat_assistant(s, rec) ==
    LET acc == nat_assistant_blocks(
                   [text |-> <<>>, tool_blocks |-> <<>>, dict |-> s.pending_tool_results],
                   IF rec.is_list THEN rec.blocks ELSE <<>>)
    IN [messages |-> IF acc.text # <<>> \/ acc.tool_blocks # <<>>
                     THEN Append(s.messages,
                                 Turn("assistant", acc.text, acc.tool_blocks, None))
                     ELSE s.messages,
        pending_tool_results |-> acc.dict]

\* the body of "for ev in events"
nat_step(s, rec) ==
    IF rec.type = "user" THEN nat_user(s, rec)
    ELSE IF rec.type = "assistant" THEN nat_assistant(s, rec)
    ELSE s

RECURSIVE UnclaimedCalls(_)
UnclaimedCalls(d) ==
    IF d = <<>> THEN <<>>
    ELSE <<ToolCall("tool", Head(d).key, <<>>, Head(d).value)>> \o UnclaimedCalls(Tail(d))

\* nat_final assigning the unclaimed calls as the tool list of the last Turn
nat_final_replaces_calls(s) ==
    IF s.pending_tool_results # <<>> /\ s.messages # <<>>
       /\ s.messages[Len(s.messages)].role = "assistant"
    THEN [s EXCEPT !.messages[Len(s.messages)].tool_blocks =
                        UnclaimedCalls(s.pending_tool_results)]
    ELSE s

\* nat_final that appends the unclaimed calls whatever the role of the last Turn
nat_final_any_role(s) ==
    IF s.pending_tool_results # <<>> /\ s.messages # <<>>
    THEN [s EXCEPT !.messages[Len(s.messages)].tool_blocks =
                        @ \o UnclaimedCalls(s.pending_tool_results)]
    ELSE s

\* the statements after the loop: unclaimed results go to the last Turn
nat_final(s) ==
    IF s.pending_tool_results # <<>> /\ s.messages # <<>>
       /\ s.messages[Len(s.messages)].role = "assistant"
    THEN [s EXCEPT !.messages[Len(s.messages)].tool_blocks =
                        @ \o UnclaimedCalls(s.pending_tool_results)]
    ELSE s

RECURSIVE nat_fold(_, _)
\* "for ev in events" over a whole list
nat_fold(s, recs) == IF recs = <<>> THEN s ELSE nat_fold(nat_step(s, Head(recs)), Tail(recs))

\* the return value of one call
process_native_events(events) == nat_final(nat_fold(nat_init, events)).messages

RECURSIVE sessions_of_log(_, _)
\* st.session_state.sessions after the add_session calls of one call
sessions_of_log(ss, recs) ==
    IF recs = <<>> THEN ss
    ELSE sessions_of_log(add_session(ss, Head(recs).sessionId), Tail(recs))

(***************************************************************************)
(* The streaming loop: one operator per branch of "for ev in batch".       *)
(* A queue item is an option: None is the end-of-stream sentinel.          *)
(***************************************************************************)
loop_init == [accumulated_text |-> <<>>, accumulated_tools |-> <<>>,
              pending_tool |-> None, cost_info |-> None, all_events |-> <<>>,
              done |-> FALSE, batch |-> <<>>]

loop_tool_use_start(s, cb) ==
    [s EXCEPT
        !.accumulated_tools = IF s.pending_tool # None THEN Append(@, s.pending_tool[1])
                              ELSE @,
        !.pending_tool = Some(ToolCall(cb.name, cb.id, <<>>, <<>>))]

loop_text_delta(s, delta) == [s EXCEPT !.accumulated_text = @ \o delta.text]

loop_input_json_delta(s, delta) ==
    IF s.pending_tool # None
    THEN [s EXCEPT !.pending_tool[1].input_str = @ \o delta.partial_json]
    ELSE s

loop_stream_event(s, ev) ==
    LET inner == ev.event IN
    IF inner.type = "content_block_start"
    THEN IF inner.cb_type = "tool_use" THEN loop_tool_use_start(s, inner) ELSE s
    ELSE IF inner.type = "content_block_delta"
    THEN IF inner.delta_type = "text_delta" THEN loop_text_delta(s, inner)
         ELSE IF inner.delta_type = "input_json_delta"
         THEN loop_input_json_delta(s, inner)
         ELSE s
    ELSE s

\* "accumulated_text = block.get('text', '')" for each text block
loop_assistant(s, ev) ==
    LET texts == BlockTexts(ev.content) IN
    IF texts # <<>> THEN [s EXCEPT !.accumulated_text = texts[Len(texts)]] ELSE s

loop_tool_result(s, block) ==
    IF s.pending_tool # None
    THEN [s EXCEPT
            !.accumulated_tools =
                Append(@, [s.pending_tool[1] EXCEPT !.result = result_content(block)]),
            !.pending_tool = None]
    ELSE s

RECURSIVE loop_user_blocks(_, _)
loop_user_blocks(s, blocks) ==
    IF blocks = <<>> THEN s
    ELSE loop_user_blocks(
            IF Head(blocks).type = "tool_result" THEN loop_tool_result(s, Head(blocks))
            ELSE s,
            Tail(blocks))

loop_user(s, ev) == loop_user_blocks(s, ev.content)

loop_result(s, ev) ==
    IF cost_parts(ev) # <<>> THEN [s EXCEPT !.cost_info = cost_info_of(ev)] ELSE s

loop_done(s) == [s EXCEPT !.done = TRUE]

\* the body of "for ev in batch" for an event (not the sentinel)
loop_step(s, ev) ==
    LET a == [s EXCEPT !.all_events = Append(@, ev)] IN
    IF ev.type = "system" /\ ev.subtype = "init" THEN a
    ELSE IF ev.type = "stream_event" THEN loop_stream_event(a, ev)
    ELSE IF ev.type = "assistant" THEN loop_assistant(a, ev)
    ELSE IF ev.type = "user" THEN loop_user(a, ev)
    ELSE IF ev.type = "result" THEN loop_result(a, ev)
    ELSE IF ev.type \in {"error", "stderr"} THEN a
    ELSE IF ev.type = "done" THEN loop_done(a)
    ELSE a

\* one turn of "for ev in batch": the sentinel and a done event break out of
\* the loop, which drops what is left of the batch
loop_item(s, item) ==
    IF item = None THEN [s EXCEPT !.done = TRUE, !.batch = <<>>]
    ELSE LET n == loop_step(s, item[1]) IN
         IF n.done THEN [n EXCEPT !.batch = <<>>] ELSE [n EXCEPT !.batch = Tail(s.batch)]

\* loop_epilogue without the flush of the pending tool call
loop_epilogue_drops_pending(s) ==
    Turn("assistant", s.accumulated_text, s.accumulated_tools, s.cost_info)

\* the statements after the while loop: the message appended to the conversation
loop_epilogue(s) ==
    Turn("assistant", s.accumulated_text,
         IF s.pending_tool # None THEN Append(s.accumulated_tools, s.pending_tool[1])
         ELSE s.accumulated_tools,
         s.cost_info)

(***************************************************************************)
(* BackendClient.stream_job: the generator over the lines of the response. *)
(***************************************************************************)
\* the marker of an event line
DataPrefix == <<"d", "a", "t", "a", ":", " ">>

\* line.startswith(prefix)
startswith(line, prefix) == IsPrefix(prefix, line)

RECURSIVE StripLeft(_)
StripLeft(t) == IF t # <<>> /\ Head(t) = " " THEN StripLeft(Tail(t)) ELSE t

RECURSIVE StripRight(_)
StripRight(t) ==
    IF t # <<>> /\ t[Len(t)] = " " THEN StripRight(SubSeq(t, 1, Len(t) - 1)) ELSE t

\* the JSON documents among the payloads of the lines below
JsonDocuments == { <<"{", "}">>, <<"1">> }

\* json.loads(text): the decoded value, written as its document without the
\* surrounding whitespace, or None for json.JSONDecodeError
json_loads(text) ==
    LET t == StripRight(StripLeft(text)) IN
    IF t \in JsonDocuments THEN Some(t) ELSE None

\* stream_job_line without the prefix test: every non-empty line is parsed
\* from its seventh character on
stream_job_line_any_prefix(line) ==
    IF line # <<>>
    THEN json_loads(SubSeq(line, Len(DataPrefix) + 1, Len(line)))
    ELSE None

\* what one iteration of "for line in resp.iter_lines(...)" yields, as an option
stream_job_line(line) ==
    IF line # <<>> /\ startswith(line, DataPrefix)
    THEN json_loads(SubSeq(line, Len(DataPrefix) + 1, Len(line)))
    ELSE None

(***************************************************************************)
(* Inputs.                                                                 *)
(***************************************************************************)
\* the lines a response is made of
TransportLines ==
    { <<"d", "a", "t", "a", ":", " ", "{", "}">>,
      <<"d", "a", "t", "a", ":", " ", "1">>,
      <<"d", "a", "t", "a", ":", " ", " ", "{", "}", " ">>,
      <<"d", "a", "t", "a", ":", " ", "{">>,
      <<"d", "a", "t", "a", ":", " ">>,
      <<"d", "a", "t", "a", ":", "{", "}">>,
      <<" ", "d", "a", "t", "a", ":", " ", "{", "}">>,
      <<":", "k">>,
      <<>> }

\* the events a list given to process_events is made of
LiveEvents ==
    { EvInit("s1"),
      EvAssistant(<<TextBlock(<<"a">>), TextBlock(<<"b">>)>>),
      EvUser(<<ToolResultBlock("1", StrContent(<<"r">>))>>),
      EvUser(<<ToolResultBlock("2", ListContent(<<Item(<<"x">>), NonDict, Item(<<"y">>)>>))>>),
      EvToolStart("A", "1"),
      EvToolStart("B", "2"),
      EvTextDelta(<<"a">>),
      EvTextDelta(<<" ">>),
      EvJsonDelta(<<"j">>),
      EvResult("s2", Some(100), 5, 0),
      EvError(<<"e">>),
      EvStderr(<<>>),
      EvDone }

\* the records a replay log is made of
NativeRecords ==
    { RecUserText("n1", <<"u">>),
      RecUserText("", <<" ">>),
      RecUserBlocks("n1", <<ToolResultBlock("1", StrContent(<<"r">>))>>),
      RecUserBlocks("", <<ToolResultBlock("2",
                            ListContent(<<Item(<<"x">>), NonDict, Item(<<"y">>)>>))>>),
      RecAssistant("n2", <<TextBlock(<<"a">>), ToolUseBlock("A", "1", <<[k |-> "k", v |-> 1]>>)>>),
      RecAssistant("", <<ToolUseBlock("B", "2", <<>>)>>),
      RecAssistant("", <<TextBlock(<<" ">>)>>),
      RecQueueOp("n3") }

\* the events the transport delivers during a job
StreamEvents ==
    { EvAssistant(<<TextBlock(<<"a">>), TextBlock(<<"b">>)>>),
      EvUser(<<ToolResultBlock("1", StrContent(<<"r">>))>>),
      EvToolStart("A", "1"),
      EvToolStart("B", "2"),
      EvTextDelta(<<"a">>),
      EvJsonDelta(<<"j">>),
      EvResult("s2", Some(100), 5, 0),
      EvDone }

\* job_data.get("session_id_out") / sess.get("session_id", "") of the loaded item
LoadedSids == {"", "s9"}

\* the prompt typed into st.chat_input
Prompt == <<"p">>

\* str(e) of a transport failure
FailureText == <<"f">>

(***************************************************************************)
(* Initial states: the session state of init_state, and the entry point    *)
(* the script run takes.                                                   *)
(***************************************************************************)
InitSession ==
    /\ sessions = <<>>
    /\ session_id = None
    /\ messages = <<>>
    /\ is_streaming = FALSE
    /\ cancel_requested = FALSE

IdlePE     == pe_input = <<>> /\ pe = pe_init /\ pe_pc = "idle"
IdleNative == nat_input = <<>> /\ nat = nat_init /\ nat_pc = "idle" /\ reparsed = <<>>
IdleStream ==
    /\ received = <<>>
    /\ w_pc = "idle"
    /\ event_queue = <<>>
    /\ stop_event = FALSE
    /\ loop = loop_init
    /\ c_pc = "idle"
    /\ cancel_job_result = "none"
IdleStreamJob == lines = <<>> /\ yielded = <<>> /\ sj_pc = "idle"

\* a job button was pressed: process_events starts on the job's events
InitPE ==
    /\ entry = "load_job"
    /\ InitSession
    /\ pe_input = <<>> /\ pe = pe_init /\ pe_pc = "loop"
    /\ IdleNative /\ IdleStream /\ IdleStreamJob

\* a PC-history button was pressed: process_native_events starts on the log
InitNative ==
    /\ entry = "load_session"
    /\ InitSession
    /\ nat_input = <<>> /\ nat = nat_init /\ nat_pc = "loop" /\ reparsed = <<>>
    /\ IdlePE /\ IdleStream /\ IdleStreamJob

\* the chat input is shown
InitStream ==
    /\ entry = "prompt"
    /\ InitSession
    /\ IdlePE /\ IdleNative /\ IdleStream /\ IdleStreamJob

\* stream_job was called and the response is open
InitStreamJob ==
    /\ entry = "stream_job"
    /\ InitSession
    /\ IdlePE /\ IdleNative /\ IdleStream
    /\ lines = <<>> /\ yielded = <<>> /\ sj_pc = "iter"

Init == InitPE \/ InitNative \/ InitStream \/ InitStreamJob

(***************************************************************************)
(* process_events and the job button that calls it.                        *)
(***************************************************************************)
pe_iterate(ev) ==
    /\ pe_pc = "loop"
    /\ Len(pe_input) < MaxEvents
    /\ pe_input' = Append(pe_input, ev)
    /\ pe' = pe_step(pe, ev)
    /\ sessions' = sessions_after(sessions, ev)
    /\ session_id' = session_id_after(session_id, ev)
    /\ UNCHANGED <<entry, messages, is_streaming, cancel_requested, pe_pc,
                   nat_vars, stream_vars, sj_vars>>

pe_return(sid) ==
    /\ pe_pc = "loop"
    /\ pe' = pe_final(pe)
    /\ pe_pc' = "returned"
    /\ messages' = pe'.messages
    /\ sessions' = add_session(sessions, sid)
    /\ session_id' = IF sid # "" THEN Some(sid) ELSE session_id
    /\ UNCHANGED <<entry, is_streaming, cancel_requested, pe_input,
                   nat_vars, stream_vars, sj_vars>>

NextPE == (\E ev \in LiveEvents : pe_iterate(ev)) \/ (\E sid \in LoadedSids : pe_return(sid))

(***************************************************************************)
(* process_native_events and the PC-history button that calls it.          *)
(***************************************************************************)
\* nat_iterate that records the session id of user and assistant records only
nat_iterate_skips_ignored(rec) ==
    /\ nat_pc = "loop"
    /\ Len(nat_input) < MaxRecords
    /\ nat_input' = Append(nat_input, rec)
    /\ nat' = nat_step(nat, rec)
    /\ sessions' = IF rec.type \in {"user", "assistant"}
                   THEN add_session(sessions, rec.sessionId) ELSE sessions
    /\ UNCHANGED <<entry, session_id, messages, is_streaming, cancel_requested, nat_pc,
                   reparsed, pe_vars, stream_vars, sj_vars>>

nat_iterate(rec) ==
    /\ nat_pc = "loop"
    /\ Len(nat_input) < MaxRecords
    /\ nat_input' = Append(nat_input, rec)
    /\ nat' = nat_step(nat, rec)
    /\ sessions' = add_session(sessions, rec.sessionId)
    /\ UNCHANGED <<entry, session_id, messages, is_streaming, cancel_requested, nat_pc,
                   reparsed, pe_vars, stream_vars, sj_vars>>

nat_return(sid) ==
    /\ nat_pc = "loop"
    /\ nat' = nat_final(nat)
    /\ nat_pc' = "returned"
    /\ messages' = nat'.messages
    /\ sessions' = add_session(sessions, sid)
    /\ session_id' = Some(sid)
    /\ UNCHANGED <<entry, is_streaming, cancel_requested, nat_input, reparsed,
                   pe_vars, stream_vars, sj_vars>>

\* the PC-history button is pressed again for the same log: a second call of
\* process_native_events on the same records, from the session state the
\* first call left
nat_reparse ==
    /\ nat_pc = "returned"
    /\ reparsed' = process_native_events(nat_input)
    /\ nat_pc' = "reparsed"
    /\ messages' = reparsed'
    /\ sessions' = add_session(sessions_of_log(sessions, nat_input), session_id[1])
    /\ UNCHANGED <<entry, session_id, is_streaming, cancel_requested, nat_input, nat,
                   pe_vars, stream_vars, sj_vars>>

NextNative ==
    \/ \E rec \in NativeRecords : nat_iterate(rec)
    \/ \E sid \in LoadedSids : nat_return(sid)
    \/ nat_reparse

(***************************************************************************)
(* The prompt handler: job start, stream_worker and the streaming loop.    *)
(***************************************************************************)
\* lines 1232-1299: the prompt is sent, the worker thread is started
submit_prompt ==
    /\ entry = "prompt"
    /\ c_pc = "idle"
    /\ ~is_streaming
    /\ messages' = Append(messages, Turn("user", Prompt, <<>>, None))
    /\ is_streaming' = TRUE
    /\ cancel_requested' = FALSE
    /\ event_queue' = <<>>
    /\ stop_event' = FALSE
    /\ w_pc' = "iter"
    /\ loop' = loop_init
    /\ c_pc' = "top"
    /\ UNCHANGED <<entry, cancel_job_result, sessions, session_id, received, pe_vars, nat_vars, sj_vars>>

\* lines 1270-1272: send_prompt raised, the script run stops
submit_prompt_fails ==
    /\ entry = "prompt"
    /\ c_pc = "idle"
    /\ ~is_streaming
    /\ messages' = Append(messages, Turn("user", Prompt, <<>>, None))
    /\ c_pc' = "stopped"
    /\ UNCHANGED <<entry, cancel_job_result, sessions, session_id, is_streaming, cancel_requested,
                   received, w_pc, event_queue, stop_event, loop,
                   pe_vars, nat_vars, sj_vars>>

\* worker_forward putting the event at the head of the queue
worker_forward_puts_first(ev) ==
    /\ w_pc = "iter"
    /\ Len(received) < MaxTransport
    /\ received' = Append(received, ev)
    /\ IF stop_event
       THEN w_pc' = "break" /\ UNCHANGED event_queue
       ELSE w_pc' = "iter" /\ event_queue' = <<Some(ev)>> \o event_queue
    /\ UNCHANGED <<entry, cancel_job_result, session_vars, stop_event, loop, c_pc, pe_vars, nat_vars, sj_vars>>

\* worker_forward without the test of the stop flag
worker_forward_ignores_stop(ev) ==
    /\ w_pc = "iter"
    /\ Len(received) < MaxTransport
    /\ received' = Append(received, ev)
    /\ w_pc' = "iter"
    /\ event_queue' = Append(event_queue, Some(ev))
    /\ UNCHANGED <<entry, cancel_job_result, session_vars, stop_event, loop, c_pc, pe_vars, nat_vars, sj_vars>>

\* stream_worker, lines 385-388: client.stream_job yields the next event; the
\* worker breaks if the stop flag is set and puts the event otherwise
worker_forward(ev) ==
    /\ w_pc = "iter"
    /\ Len(received) < MaxTransport
    /\ received' = Append(received, ev)
    /\ IF stop_event
       THEN w_pc' = "break" /\ UNCHANGED event_queue
       ELSE w_pc' = "iter" /\ event_queue' = Append(event_queue, Some(ev))
    /\ UNCHANGED <<entry, cancel_job_result, session_vars, stop_event, loop, c_pc, pe_vars, nat_vars, sj_vars>>

\* stream_worker, line 385: the transport closed, the for loop ends
worker_close ==
    /\ w_pc = "iter"
    /\ w_pc' = "sentinel"
    /\ UNCHANGED <<entry, cancel_job_result, session_vars, received, event_queue, stop_event, loop,
                   c_pc, pe_vars, nat_vars, sj_vars>>

\* worker_except swallowing the failure without an error event
worker_except_no_event ==
    /\ w_pc = "iter"
    /\ w_pc' = "except"
    /\ UNCHANGED <<entry, cancel_job_result, session_vars, received, event_queue, stop_event, loop, c_pc,
                   pe_vars, nat_vars, sj_vars>>

\* stream_worker, lines 390-391: opening or reading the stream raised
worker_except ==
    /\ w_pc = "iter"
    /\ event_queue' = Append(event_queue, Some(EvError(FailureText)))
    /\ w_pc' = "except"
    /\ UNCHANGED <<entry, cancel_job_result, session_vars, received, stop_event, loop, c_pc,
                   pe_vars, nat_vars, sj_vars>>

\* worker_sentinel returning without the sentinel after the break
worker_sentinel_not_after_break ==
    /\ w_pc \in {"sentinel", "break"}
    /\ event_queue' = IF w_pc = "break" THEN event_queue ELSE Append(event_queue, None)
    /\ w_pc' = IF w_pc = "break" THEN "stopped" ELSE "finished"
    /\ UNCHANGED <<entry, cancel_job_result, session_vars, received, stop_event, loop, c_pc,
                   pe_vars, nat_vars, sj_vars>>

\* worker_sentinel that also clears the streaming flag of the UI state
worker_sentinel_clears_flag ==
    /\ w_pc \in {"sentinel", "break"}
    /\ event_queue' = Append(event_queue, None)
    /\ w_pc' = IF w_pc = "break" THEN "stopped" ELSE "finished"
    /\ is_streaming' = FALSE
    /\ UNCHANGED <<entry, cancel_job_result, sessions, session_id, messages, cancel_requested, received,
                   stop_event, loop, c_pc, pe_vars, nat_vars, sj_vars>>

\* stream_worker, line 389: the end-of-stream sentinel after the for loop,
\* whether the loop ended with the transport or by the break
worker_sentinel ==
    /\ w_pc \in {"sentinel", "break"}
    /\ event_queue' = Append(event_queue, None)
    /\ w_pc' = IF w_pc = "break" THEN "stopped" ELSE "finished"
    /\ UNCHANGED <<entry, cancel_job_result, session_vars, received, stop_event, loop, c_pc,
                   pe_vars, nat_vars, sj_vars>>

\* worker_except_sentinel putting the sentinel of line 389 as well
worker_except_sentinel_twice ==
    /\ w_pc = "except"
    /\ event_queue' = event_queue \o <<None, None>>
    /\ w_pc' = "failed"
    /\ UNCHANGED <<entry, cancel_job_result, session_vars, received, stop_event, loop, c_pc,
                   pe_vars, nat_vars, sj_vars>>

\* stream_worker, line 392: the end-of-stream sentinel of the except branch
worker_except_sentinel ==
    /\ w_pc = "except"
    /\ event_queue' = Append(event_queue, None)
    /\ w_pc' = "failed"
    /\ UNCHANGED <<entry, cancel_job_result, session_vars, received, stop_event, loop, c_pc,
                   pe_vars, nat_vars, sj_vars>>

\* what client.cancel_job can do: return the reply, or raise (no connection,
\* timeout, raise_for_status)
CancelJobResults == {"ok", "raised"}

\* cancel_click letting the exception of cancel_job end the script run
cancel_click_escalates(result) ==
    /\ is_streaming
    /\ c_pc \in {"top", "poll", "process", "epilogue"}
    /\ cancel_requested' = TRUE
    /\ cancel_job_result' = result
    /\ c_pc' = IF result = "raised" THEN "stopped" ELSE c_pc
    /\ UNCHANGED <<entry, sessions, session_id, messages, is_streaming,
                   received, w_pc, event_queue, stop_event, loop,
                   pe_vars, nat_vars, sj_vars>>

\* lines 1221-1228: the cancel button sets the flag and calls cancel_job; an
\* exception of cancel_job is caught and passed over
cancel_click(result) ==
    /\ is_streaming
    /\ c_pc \in {"top", "poll", "process", "epilogue"}
    /\ cancel_requested' = TRUE
    /\ cancel_job_result' = result
    /\ UNCHANGED <<entry, sessions, session_id, messages, is_streaming,
                   received, w_pc, event_queue, stop_event, loop, c_pc,
                   pe_vars, nat_vars, sj_vars>>

\* consumer_cancel that also empties the queue
consumer_cancel_clears_queue ==
    /\ c_pc = "top"
    /\ cancel_requested
    /\ stop_event' = TRUE
    /\ event_queue' = <<>>
    /\ c_pc' = "epilogue"
    /\ UNCHANGED <<entry, cancel_job_result, session_vars, received, w_pc, loop, pe_vars, nat_vars, sj_vars>>

\* consumer_cancel leaving the loop without setting the stop flag
consumer_cancel_keeps_worker ==
    /\ c_pc = "top"
    /\ cancel_requested
    /\ c_pc' = "epilogue"
    /\ UNCHANGED <<entry, cancel_job_result, session_vars, received, w_pc, event_queue, stop_event, loop,
                   pe_vars, nat_vars, sj_vars>>

\* lines 1303-1305: the loop-top check finds the flag set
consumer_cancel ==
    /\ c_pc = "top"
    /\ cancel_requested
    /\ stop_event' = TRUE
    /\ c_pc' = "epilogue"
    /\ UNCHANGED <<entry, cancel_job_result, session_vars, received, w_pc, event_queue, loop,
                   pe_vars, nat_vars, sj_vars>>

\* lines 1303: the loop-top check finds the flag clear
consumer_check ==
    /\ c_pc = "top"
    /\ ~cancel_requested
    /\ c_pc' = "poll"
    /\ UNCHANGED <<entry, cancel_job_result, session_vars, received, w_pc, event_queue, stop_event,
                   loop, pe_vars, nat_vars, sj_vars>>

\* lines 1308-1319: the queue is drained into a batch; an empty batch sleeps
\* and goes back to the loop top
consumer_poll ==
    /\ c_pc = "poll"
    /\ event_queue' = <<>>
    /\ loop' = [loop EXCEPT !.batch = event_queue]
    /\ c_pc' = IF event_queue = <<>> THEN "top" ELSE "process"
    /\ UNCHANGED <<entry, cancel_job_result, session_vars, received, w_pc, stop_event,
                   pe_vars, nat_vars, sj_vars>>

\* lines 1321-1452: one item of the batch is processed
consumer_process ==
    /\ c_pc = "process"
    /\ loop.batch # <<>>
    /\ LET item == Head(loop.batch) IN
        /\ loop' = loop_item(loop, item)
        /\ sessions' = IF item = None THEN sessions ELSE sessions_after(sessions, item[1])
        /\ session_id' = IF item = None THEN session_id
                         ELSE session_id_after(session_id, item[1])
    /\ c_pc' = IF loop'.done THEN "epilogue"
               ELSE IF loop'.batch = <<>> THEN "top" ELSE "process"
    /\ UNCHANGED <<entry, cancel_job_result, messages, is_streaming, cancel_requested, received, w_pc,
                   event_queue, stop_event, pe_vars, nat_vars, sj_vars>>

\* consumer_epilogue without the reset of is_streaming
consumer_epilogue_keeps_streaming ==
    /\ c_pc = "epilogue"
    /\ messages' = Append(messages, loop_epilogue(loop))
    /\ loop' = [loop EXCEPT !.accumulated_tools = loop_epilogue(loop).tool_blocks]
    /\ cancel_requested' = FALSE
    /\ c_pc' = "ended"
    /\ UNCHANGED <<entry, cancel_job_result, sessions, session_id, is_streaming, received, w_pc, event_queue,
                   stop_event, pe_vars, nat_vars, sj_vars>>

\* consumer_epilogue that leaves the cancellation flag as it is
consumer_epilogue_keeps_cancel ==
    /\ c_pc = "epilogue"
    /\ messages' = Append(messages, loop_epilogue(loop))
    /\ loop' = [loop EXCEPT !.accumulated_tools = loop_epilogue(loop).tool_blocks]
    /\ is_streaming' = FALSE
    /\ c_pc' = "ended"
    /\ UNCHANGED <<entry, cancel_job_result, cancel_requested, sessions, session_id,
                   received, w_pc, event_queue, stop_event, pe_vars, nat_vars, sj_vars>>

\* lines 1454-1478: the message is appended, the flags are cleared
consumer_epilogue ==
    /\ c_pc = "epilogue"
    /\ messages' = Append(messages, loop_epilogue(loop))
    /\ loop' = [loop EXCEPT !.accumulated_tools = loop_epilogue(loop).tool_blocks]
    /\ is_streaming' = FALSE
    /\ cancel_requested' = FALSE
    /\ c_pc' = "ended"
    /\ UNCHANGED <<entry, cancel_job_result, sessions, session_id, received, w_pc, event_queue,
                   stop_event, pe_vars, nat_vars, sj_vars>>

\* the outcome of cancel_job changes no other variable; the call that raises
\* is followed in NextExchange
NextStream ==
    \/ submit_prompt
    \/ submit_prompt_fails
    \/ \E ev \in StreamEvents : worker_forward(ev)
    \/ worker_close
    \/ worker_except
    \/ worker_sentinel
    \/ worker_except_sentinel
    \/ cancel_click("ok")
    \/ consumer_cancel
    \/ consumer_check
    \/ consumer_poll
    \/ consumer_process
    \/ consumer_epilogue

(***************************************************************************)
(* BackendClient.stream_job.                                               *)
(***************************************************************************)
\* lines 103-108: the response produces one more line
stream_job_iterate(line) ==
    /\ sj_pc = "iter"
    /\ Len(lines) < MaxLines
    /\ lines' = Append(lines, line)
    /\ yielded' = yielded \o stream_job_line(line)
    /\ UNCHANGED <<entry, session_vars, pe_vars, nat_vars, stream_vars, sj_pc>>

\* line 103: the connection closed, the generator ends
stream_job_close ==
    /\ sj_pc = "iter"
    /\ sj_pc' = "closed"
    /\ UNCHANGED <<entry, session_vars, pe_vars, nat_vars, stream_vars, lines, yielded>>

NextStreamJob ==
    \/ \E line \in TransportLines : stream_job_iterate(line)
    \/ stream_job_close

(***************************************************************************)
(* Specifications.                                                         *)
(***************************************************************************)
Next == NextPE \/ NextNative \/ NextStream \/ NextStreamJob

Spec       == Init /\ [][Next]_vars
SpecPE     == InitPE /\ [][NextPE]_vars
SpecNative == InitNative /\ [][NextNative]_vars
SpecStream == InitStream /\ [][NextStream]_vars
SpecStreamJob == InitStreamJob /\ [][NextStreamJob]_vars

\* the two decoders
NextDecoders == NextPE \/ NextNative
SpecDecoders == (InitPE \/ InitNative) /\ [][NextDecoders]_vars

\* the two folds of the live encoding
NextLive == NextPE \/ NextStream
SpecLive == (InitPE \/ InitStream) /\ [][NextLive]_vars

\* the prompt handler with its scheduling: the script run that executes the
\* streaming loop keeps running, and the worker thread, once it has left the
\* transport read, runs to its end.  Nothing obliges the transport to deliver
\* an event, to close or to fail, nor the user to click.
FairStream ==
    /\ WF_vars(consumer_cancel) /\ WF_vars(consumer_check) /\ WF_vars(consumer_poll)
    /\ WF_vars(consumer_process) /\ WF_vars(consumer_epilogue)
    /\ WF_vars(worker_sentinel) /\ WF_vars(worker_except_sentinel)

\* the events of a short exchange: text, a tool call, its result, the end
ExchangeEvents ==
    { EvTextDelta(<<"a">>),
      EvToolStart("A", "1"),
      EvUser(<<ToolResultBlock("1", StrContent(<<"r">>))>>),
      EvDone }

NextExchange ==
    \/ submit_prompt
    \/ submit_prompt_fails
    \/ \E ev \in ExchangeEvents : worker_forward(ev)
    \/ worker_close
    \/ worker_except
    \/ worker_sentinel
    \/ worker_except_sentinel
    \/ \E result \in CancelJobResults : cancel_click(result)
    \/ consumer_cancel
    \/ consumer_check
    \/ consumer_poll
    \/ consumer_process
    \/ consumer_epilogue

SpecStreamFair == InitStream /\ [][NextExchange]_vars /\ FairStream

(***************************************************************************)
(* What an input carries and what an output holds.                         *)
(***************************************************************************)
RECURSIVE InputText(_)
\* the text fragments of a live event list, in arrival order: text_delta
\* fragments and the text blocks of assistant events
InputText(evs) ==
    IF evs = <<>> THEN <<>>
    ELSE LET e == Head(evs) IN
         (IF e.type = "stream_event" /\ e.event.type = "content_block_delta"
             /\ e.event.delta_type = "text_delta"
          THEN e.event.text
          ELSE IF e.type = "assistant" THEN Concat(BlockTexts(e.content))
          ELSE <<>>)
         \o InputText(Tail(evs))

HasToolResult(e) ==
    e.type = "user" /\ \E i \in DOMAIN e.content : e.content[i].type = "tool_result"

IsToolStart(e) ==
    e.type = "stream_event" /\ e.event.type = "content_block_start"
    /\ e.event.cb_type = "tool_use"

IsJsonDelta(e) ==
    e.type = "stream_event" /\ e.event.type = "content_block_delta"
    /\ e.event.delta_type = "input_json_delta"

RECURSIVE InputArgs(_, _)
\* the input_json_delta fragments that arrive while a tool call is pending, in
\* arrival order; a call is pending from its start to the next tool_result,
\* result or done event
InputArgs(evs, pending) ==
    IF evs = <<>> THEN <<>>
    ELSE LET e == Head(evs) IN
         IF IsToolStart(e) THEN InputArgs(Tail(evs), TRUE)
         ELSE IF HasToolResult(e) \/ e.type \in {"result", "done"}
         THEN InputArgs(Tail(evs), FALSE)
         ELSE IF IsJsonDelta(e) /\ pending
         THEN e.event.partial_json \o InputArgs(Tail(evs), pending)
         ELSE InputArgs(Tail(evs), pending)

RECURSIVE AssistantTexts(_)
\* the texts of the assistant Turns, in order
AssistantTexts(msgs) ==
    IF msgs = <<>> THEN <<>>
    ELSE (IF Head(msgs).role = "assistant" THEN <<Head(msgs).content>> ELSE <<>>)
         \o AssistantTexts(Tail(msgs))

RECURSIVE AllToolCalls(_)
\* the tool calls of all Turns, in order
AllToolCalls(msgs) ==
    IF msgs = <<>> THEN <<>> ELSE Head(msgs).tool_blocks \o AllToolCalls(Tail(msgs))

RECURSIVE CallArgs(_)
CallArgs(calls) ==
    IF calls = <<>> THEN <<>> ELSE Head(calls).input_str \o CallArgs(Tail(calls))

(***************************************************************************)
(* C1  Completeness of process_events: the text of the returned assistant  *)
(* Turns, concatenated, is the concatenation of the text fragments of the  *)
(* input, and the arguments of the returned tool calls, concatenated, are  *)
(* the concatenation of the argument fragments that arrived for a pending  *)
(* tool: each fragment once, in arrival order.                             *)
(***************************************************************************)
C1_Completeness ==
    pe_pc = "returned" =>
        /\ Concat(AssistantTexts(pe.messages)) = InputText(pe_input)
        /\ CallArgs(AllToolCalls(pe.messages)) = InputArgs(pe_input, FALSE)

(***************************************************************************)
(* C2  Replay correlation by id: when a tool_use block of an assistant     *)
(* record precedes a tool_result block for the same id in a later user     *)
(* record, the ToolCall returned for that tool_use block carries the       *)
(* result.                                                                 *)
(***************************************************************************)
\* the index of the Turn the i-th record of the log produces
TurnOfRecord(log, i) == Len(nat_fold(nat_init, SubSeq(log, 1, i)).messages)

ToolUseBlocks(rec) ==
    IF rec.type = "assistant" /\ rec.is_list
    THEN SelectSeq(rec.blocks, LAMBDA b : b.type = "tool_use") ELSE <<>>

ToolResultBlocks(rec) ==
    IF rec.type = "user" /\ rec.is_list
    THEN SelectSeq(rec.blocks, LAMBDA b : b.type = "tool_result") ELSE <<>>

C2_ReplayCorrelation ==
    nat_pc = "returned" =>
        \A i \in DOMAIN nat_input : \A j \in DOMAIN nat_input :
            i < j =>
                \A k \in DOMAIN ToolUseBlocks(nat_input[i]) :
                \A r \in DOMAIN ToolResultBlocks(nat_input[j]) :
                    ToolResultBlocks(nat_input[j])[r].tool_use_id
                        = ToolUseBlocks(nat_input[i])[k].id
                    => nat.messages[TurnOfRecord(nat_input, i)].tool_blocks[k].result
                        = result_content(ToolResultBlocks(nat_input[j])[r])

(***************************************************************************)
(* The streaming loop against the events it has processed.                 *)
(***************************************************************************)
Last(s) == s[Len(s)]

RECURSIVE loop_fold(_, _)
loop_fold(s, evs) ==
    IF evs = <<>> THEN s ELSE loop_fold(loop_step(s, Head(evs)), Tail(evs))

\* the text and the tool calls the loop reconstructs from a list of events
ReconstructedText(evs) == loop_fold(loop_init, evs).accumulated_text
ReconstructedTools(evs) ==
    LET f == loop_fold(loop_init, evs) IN
    f.accumulated_tools \o (IF f.pending_tool # None THEN <<f.pending_tool[1]>> ELSE <<>>)

\* the raw events among queue items (the sentinel left out)
RECURSIVE QueuedEvents(_)
QueuedEvents(q) ==
    IF q = <<>> THEN <<>>
    ELSE (IF Head(q) # None THEN <<Head(q)[1]>> ELSE <<>>) \o QueuedEvents(Tail(q))

\* the events that came from the transport (the worker's own failure event
\* left out)
FromTransport(evs) == SelectSeq(evs, LAMBDA e : e # EvError(FailureText))

\* the loop was left at the loop-top cancellation check and has ended
CancelledAndEnded == c_pc = "ended" /\ stop_event

(***************************************************************************)
(* C3  Cancellation keeps exactly what was drained.  As claimed: from the  *)
(* moment cancel_requested is set, the consumer takes nothing more off     *)
(* the queue, and the message it appends is what the events drained by     *)
(* then reconstruct.                                                       *)
(***************************************************************************)
C3_Original ==
    [][(cancel_requested /\ is_streaming /\ ~loop.done) =>
          /\ IsPrefix(event_queue, event_queue')
          /\ (c_pc' = "ended" =>
                /\ Last(messages').content
                     = ReconstructedText(loop.all_events \o QueuedEvents(loop.batch))
                /\ Last(messages').tool_blocks
                     = ReconstructedTools(loop.all_events \o QueuedEvents(loop.batch)))
      ]_vars

\* C3 as amended: when the loop is left at the loop-top cancellation check,
\* the appended message holds exactly the text and the tool calls of the events
\* processed by then, which are the first events the transport delivered.
C3_CancelKeepsDrained ==
    CancelledAndEnded =>
        /\ Last(messages).role = "assistant"
        /\ Last(messages).content = ReconstructedText(loop.all_events)
        /\ Last(messages).tool_blocks = ReconstructedTools(loop.all_events)
        /\ IsPrefix(FromTransport(loop.all_events), received)

C3_Witness ==
    /\ CancelledAndEnded
    /\ loop.all_events # <<>>
    /\ Len(loop.all_events) < Len(received)
    /\ Last(messages).content # <<>>
    /\ Last(messages).tool_blocks # <<>>

(***************************************************************************)
(* C4  Cancellation loses no queued event.  As claimed: when the loop has  *)
(* ended by cancellation, no raw event of the transport is left on the     *)
(* queue unconsumed.                                                       *)
(***************************************************************************)
C4_Original ==
    CancelledAndEnded => FromTransport(QueuedEvents(event_queue)) = <<>>

\* C4 as amended: when the loop has ended by cancellation, every event the
\* worker put was either processed, and the message is built from exactly
\* those, or is still on the queue; the events processed followed by the ones
\* queued are what the transport delivered, but for at most one event the
\* worker dropped at the stop flag.
C4_CancelKeepsQueued ==
    CancelledAndEnded =>
        LET kept == FromTransport(loop.all_events \o QueuedEvents(event_queue)) IN
        /\ IsPrefix(kept, received)
        /\ Len(received) <= Len(kept) + 1
        /\ loop.batch = <<>>
        /\ Last(messages).content = ReconstructedText(loop.all_events)

C4_Witness ==
    /\ CancelledAndEnded
    /\ loop.all_events # <<>>
    /\ QueuedEvents(event_queue) # <<>>
    /\ Last(messages).content # <<>>

(***************************************************************************)
(* C5  No empty Turn from the decoders.  As claimed: every Turn of         *)
(* process_events and of process_native_events has non-blank text or at    *)
(* least one tool call, and a list of metadata records returns no Turn.    *)
(***************************************************************************)
IsMetadataEvent(e) ==
    (e.type = "system" /\ e.subtype = "init") \/ e.type \in {"result", "done"}

MetadataOnly ==
    /\ pe_pc = "returned" => ((\A i \in DOMAIN pe_input : IsMetadataEvent(pe_input[i]))
                              => pe.messages = <<>>)
    /\ nat_pc = "returned" => ((\A i \in DOMAIN nat_input :
                                    nat_input[i].type = "queue-operation")
                               => nat.messages = <<>>)

C5_Original ==
    /\ \A i \in DOMAIN pe.messages :
          ~IsBlank(pe.messages[i].content) \/ pe.messages[i].tool_blocks # <<>>
    /\ \A i \in DOMAIN nat.messages :
          ~IsBlank(nat.messages[i].content) \/ nat.messages[i].tool_blocks # <<>>
    /\ MetadataOnly

\* C5 as amended: every Turn of the two decoders has non-empty text or at
\* least one tool call, a user Turn has non-blank text, and a list of metadata
\* records returns no Turn.
NonEmptyTurn(t) ==
    /\ t.content # <<>> \/ t.tool_blocks # <<>>
    /\ t.role = "user" => ~IsBlank(t.content)

C5_NoEmptyTurn ==
    /\ \A i \in DOMAIN pe.messages : NonEmptyTurn(pe.messages[i])
    /\ \A i \in DOMAIN nat.messages : NonEmptyTurn(nat.messages[i])
    /\ MetadataOnly

C5_Witness ==
    /\ pe_pc = "returned"
    /\ \E i \in DOMAIN pe_input : pe_input[i].type = "done"
    /\ \E i \in DOMAIN pe.messages :
          pe.messages[i].content # <<>> /\ pe.messages[i].tool_blocks = <<>>
    /\ \E i \in DOMAIN pe.messages :
          pe.messages[i].content = <<>> /\ pe.messages[i].tool_blocks # <<>>

(***************************************************************************)
(* C6  No empty Turn from the live stream: when the streaming loop has     *)
(* ended, the last message of the conversation has non-blank text or at    *)
(* least one tool call (nothing is appended when nothing was accumulated). *)
(***************************************************************************)
C6_NoEmptyLiveTurn ==
    c_pc = "ended" =>
        ~IsBlank(Last(messages).content) \/ Last(messages).tool_blocks # <<>>

(***************************************************************************)
(* C7  Live correlation by identifier: a tool_result for an id whose tool  *)
(* call was started earlier ends up on a ToolCall with that id, and on no  *)
(* ToolCall with another id, in process_events and in the streaming loop.  *)
(***************************************************************************)
StartedBefore(evs, j, id) ==
    \E i \in 1..(j - 1) : IsToolStart(evs[i]) /\ evs[i].event.id = id

Correlated(evs, calls) ==
    \A j \in DOMAIN evs :
        evs[j].type = "user" =>
            \A b \in DOMAIN evs[j].content :
                LET t == evs[j].content[b] IN
                (t.type = "tool_result" /\ StartedBefore(evs, j, t.tool_use_id)) =>
                    /\ \E c \in DOMAIN calls :
                          calls[c].id = t.tool_use_id
                          /\ calls[c].result = result_content(t)
                    /\ \A c \in DOMAIN calls :
                          (calls[c].id # "" /\ calls[c].result = result_content(t))
                          => calls[c].id = t.tool_use_id

C7_LiveCorrelation ==
    /\ pe_pc = "returned" => Correlated(pe_input, AllToolCalls(pe.messages))
    /\ c_pc = "ended" => Correlated(loop.all_events, Last(messages).tool_blocks)

(***************************************************************************)
(* C8  Orphan tool-call preservation: a tool_use start that arrives while  *)
(* a tool call is pending appends the pending call, as it is and with an   *)
(* empty result, to the tool list and makes the new call the pending one;  *)
(* the two calls then stand next to each other, in start order, in the     *)
(* Turn that is emitted.                                                   *)
(***************************************************************************)
EndsPending(e) == HasToolResult(e) \/ e.type \in {"result", "done"}

RECURSIVE ArgsBetween(_, _, _)
\* the argument fragments of evs[i+1 .. j-1]
ArgsBetween(evs, i, j) ==
    IF i + 1 >= j THEN <<>>
    ELSE (IF IsJsonDelta(evs[i + 1]) THEN evs[i + 1].event.partial_json ELSE <<>>)
         \o ArgsBetween(evs, i + 1, j)

\* evs[i] and evs[j] are tool_use starts and the call of evs[i] is still
\* pending when evs[j] arrives
StartWhilePending(evs, i, j) ==
    /\ i < j
    /\ IsToolStart(evs[i]) /\ IsToolStart(evs[j])
    /\ \A k \in (i + 1)..(j - 1) : ~IsToolStart(evs[k]) /\ ~EndsPending(evs[k])

\* some Turn holds the call of evs[i], with empty result, right before the
\* call of evs[j]
BothInOneTurn(evs, i, j, msgs) ==
    \E m \in DOMAIN msgs : \E k \in DOMAIN msgs[m].tool_blocks :
        /\ k + 1 \in DOMAIN msgs[m].tool_blocks
        /\ msgs[m].tool_blocks[k]
             = ToolCall(evs[i].event.name, evs[i].event.id, ArgsBetween(evs, i, j), <<>>)
        /\ msgs[m].tool_blocks[k + 1].name = evs[j].event.name
        /\ msgs[m].tool_blocks[k + 1].id = evs[j].event.id

OrphanCallsKept(evs, msgs) ==
    \A i \in DOMAIN evs : \A j \in DOMAIN evs :
        StartWhilePending(evs, i, j) => BothInOneTurn(evs, i, j, msgs)

C8_OrphanCallPreserved ==
    [][/\ (pe_pc = "loop" /\ pe_input' # pe_input /\ IsToolStart(Last(pe_input'))
           /\ pe.pending_tool # None) =>
              /\ pe'.current_tools = Append(pe.current_tools, pe.pending_tool[1])
              /\ pe.pending_tool[1].result = <<>>
              /\ pe'.pending_tool = Some(ToolCall(Last(pe_input').event.name,
                                                  Last(pe_input').event.id, <<>>, <<>>))
       /\ (c_pc = "process" /\ loop'.all_events # loop.all_events
           /\ IsToolStart(Last(loop'.all_events)) /\ loop.pending_tool # None) =>
              /\ loop'.accumulated_tools
                   = Append(loop.accumulated_tools, loop.pending_tool[1])
              /\ loop.pending_tool[1].result = <<>>
              /\ loop'.pending_tool = Some(ToolCall(Last(loop'.all_events).event.name,
                                                    Last(loop'.all_events).event.id,
                                                    <<>>, <<>>))
       /\ (pe_pc' = "returned" => OrphanCallsKept(pe_input', pe'.messages))
       /\ (c_pc' = "ended" => OrphanCallsKept(loop'.all_events, <<Last(messages')>>))
      ]_vars

C8_Witness ==
    /\ Len(pe_input) >= 3
    /\ IsToolStart(pe_input[Len(pe_input) - 2])
    /\ IsJsonDelta(pe_input[Len(pe_input) - 1])
    /\ IsToolStart(Last(pe_input))
    /\ pe.current_tools # <<>>
    /\ Last(pe.current_tools).input_str # <<>>
    /\ Last(pe.current_tools).result = <<>>
    /\ pe.pending_tool # None
    /\ pe.pending_tool[1].id # Last(pe.current_tools).id

(***************************************************************************)
(* C9  Orphan result fallback in process_events: a user event with         *)
(* tool_result blocks processed while no tool call is pending appends, for *)
(* each block, one ToolCall with empty id, empty arguments and the block's *)
(* result to the tool list, and leaves the pending slot empty.             *)
(***************************************************************************)
RECURSIVE OrphanCalls(_)
OrphanCalls(blocks) ==
    IF blocks = <<>> THEN <<>>
    ELSE (IF Head(blocks).type = "tool_result"
          THEN <<ToolCall("tool", "", <<>>, result_content(Head(blocks)))>> ELSE <<>>)
         \o OrphanCalls(Tail(blocks))

C9_OrphanResult ==
    [][(pe_pc = "loop" /\ pe_input' # pe_input /\ HasToolResult(Last(pe_input'))
        /\ pe.pending_tool = None) =>
           /\ pe'.current_tools
                = pe.current_tools \o OrphanCalls(Last(pe_input').content)
           /\ pe'.pending_tool = None
           /\ pe'.current_text = pe.current_text
           /\ pe'.messages = pe.messages
      ]_vars

C9_Witness ==
    /\ pe_pc = "loop"
    /\ pe_input # <<>>
    /\ HasToolResult(Last(pe_input))
    /\ pe.pending_tool = None
    /\ pe.current_tools # <<>>
    /\ Last(pe.current_tools) = ToolCall("tool", "", <<>>, <<"r">>)

(***************************************************************************)
(* C10  Orphan result fallback in the live stream: the result text of      *)
(* every tool_result the streaming loop has processed is the result of a   *)
(* ToolCall of the message it appends.                                     *)
(***************************************************************************)
C10_LiveOrphanResult ==
    c_pc = "ended" =>
        \A i \in DOMAIN loop.all_events :
            loop.all_events[i].type = "user" =>
                \A b \in DOMAIN loop.all_events[i].content :
                    loop.all_events[i].content[b].type = "tool_result" =>
                        \E c \in DOMAIN Last(messages).tool_blocks :
                            Last(messages).tool_blocks[c].result
                                = result_content(loop.all_events[i].content[b])

(***************************************************************************)
(* C11  Boundary correctness: for the list [tool_use start, one or more    *)
(* input_json_delta fragments, user tool_result for the started id,        *)
(* result event with a cost], process_events returns exactly one Turn, an  *)
(* assistant Turn with no text and exactly one ToolCall that has the       *)
(* started name and id, the concatenation of the fragments as arguments    *)
(* and the result text, and whose usage is the summary of the result       *)
(* event.                                                                  *)
(***************************************************************************)
\* the list is [start, delta+, tool_result for the started id, result with cost]
SingleCallExchange(evs) ==
    /\ Len(evs) >= 4
    /\ IsToolStart(evs[1])
    /\ \A i \in 2..(Len(evs) - 2) : IsJsonDelta(evs[i])
    /\ evs[Len(evs) - 1].type = "user"
    /\ Len(evs[Len(evs) - 1].content) = 1
    /\ evs[Len(evs) - 1].content[1].type = "tool_result"
    /\ evs[Len(evs) - 1].content[1].tool_use_id = evs[1].event.id
    /\ evs[Len(evs)].type = "result"
    /\ evs[Len(evs)].cost_usd # None

RECURSIVE FragmentsOf(_)
\* the concatenation of the partial_json fragments of the events
FragmentsOf(evs) ==
    IF evs = <<>> THEN <<>>
    ELSE (IF IsJsonDelta(Head(evs)) THEN Head(evs).event.partial_json ELSE <<>>)
         \o FragmentsOf(Tail(evs))

C13_Original == IsPrefix(loop.all_events, received)

\* C13 as amended: the events the consumer loop has processed are a prefix of
\* the events the worker received from the transport, in the same order, or,
\* after a transport failure, all of them followed by the one error event the
\* worker made of the failure.
C13_FifoDelivery ==
    \/ IsPrefix(loop.all_events, received)
    \/ loop.all_events = received \o <<EvError(FailureText)>>

C13_Witness ==
    /\ Len(received) = MaxTransport
    /\ Len(loop.all_events) >= 2
    /\ Len(loop.all_events) < Len(received)
    /\ loop.all_events[1] # loop.all_events[2]
    /\ loop.batch # <<>>

(***************************************************************************)
(* C14  Append-only, immutable output.  As claimed: every step of the two  *)
(* decoders, the statements after the loop included, leaves the Turns      *)
(* already in the output list as they are and only appends at the end.     *)
(***************************************************************************)
C14_Original ==
    [][IsPrefix(pe.messages, pe'.messages) /\ IsPrefix(nat.messages, nat'.messages)]_vars

\* the Turns are the same but for tool calls appended to the last one
OnlyLastExtended(old, new) ==
    /\ Len(new) = Len(old)
    /\ \A i \in 1..(Len(old) - 1) : new[i] = old[i]
    /\ old # <<>> =>
          /\ Last(new).role = Last(old).role
          /\ Last(new).content = Last(old).content
          /\ Last(new).cost_info = Last(old).cost_info
          /\ IsPrefix(Last(old).tool_blocks, Last(new).tool_blocks)
          /\ Last(new) # Last(old) => Last(old).role = "assistant"

\* C14 as amended: every step of process_events, and every iteration of the
\* loop of process_native_events, only appends to the output list; the
\* statements after the loop of process_native_events leave all Turns as they
\* are except that they may append tool calls to the last Turn when it is an
\* assistant Turn.
C14_AppendOnly ==
    [][/\ IsPrefix(pe.messages, pe'.messages)
       /\ nat_pc' = "loop" => IsPrefix(nat.messages, nat'.messages)
       /\ nat_pc' # "loop" => OnlyLastExtended(nat.messages, nat'.messages)
      ]_vars

C14_Witness ==
    /\ nat_pc = "returned"
    /\ Len(nat.messages) >= 2
    /\ nat.messages # nat_fold(nat_init, nat_input).messages
    /\ Len(Last(nat.messages).tool_blocks) >= 2

(***************************************************************************)
(* C15  Transport failure becomes data: when opening or reading the stream *)
(* raises, the worker puts one error event carrying the message and then   *)
(* the sentinel and returns; the consumer then leaves its loop, and when   *)
(* it leaves it by the sentinel the message it appends is what the events  *)
(* received before the failure reconstruct.                                *)
(***************************************************************************)
RECURSIVE UpToDone(_)
\* the events up to and including the first done event
UpToDone(evs) ==
    IF evs = <<>> THEN <<>>
    ELSE IF Head(evs).type = "done" THEN <<Head(evs)>>
    ELSE <<Head(evs)>> \o UpToDone(Tail(evs))

C15_FailureBecomesData ==
    /\ [][/\ (w_pc = "iter" /\ w_pc' = "except") =>
                event_queue' = Append(event_queue, Some(EvError(FailureText)))
          /\ (w_pc = "except" /\ w_pc' # "except") =>
                (w_pc' = "failed" /\ event_queue' = Append(event_queue, None))
          /\ (w_pc' = "failed" /\ c_pc' = "ended" /\ ~stop_event') =>
                /\ loop'.all_events = UpToDone(received' \o <<EvError(FailureText)>>)
                /\ Last(messages').role = "assistant"
                /\ Last(messages').content = ReconstructedText(UpToDone(received'))
                /\ Last(messages').tool_blocks = ReconstructedTools(UpToDone(received'))
         ]_vars
    /\ (w_pc = "failed" ~> c_pc = "ended")

C15_Witness ==
    /\ w_pc = "failed"
    /\ c_pc = "ended"
    /\ ~stop_event
    /\ Len(received) >= 2
    /\ Last(loop.all_events) = EvError(FailureText)
    /\ Last(messages).content # <<>>
    /\ Last(messages).tool_blocks # <<>>

(***************************************************************************)
(* C16  Malformed lines are skipped, not fatal: stream_job has yielded     *)
(* exactly the JSON records of the lines read so far that start with       *)
(* "data: " and whose rest parses, in line order; a line without the       *)
(* prefix or with unparseable JSON yields nothing, and no line ends the    *)
(* sequence.                                                               *)
(***************************************************************************)
\* the line is an event line: the marker followed by a JSON document, with
\* optional blanks around the document
IsEventLine(line) ==
    /\ Len(line) > 6
    /\ SubSeq(line, 1, 6) = <<"d", "a", "t", "a", ":", " ">>
    /\ \E i \in 7..Len(line) : \E j \in i..Len(line) :
          /\ SubSeq(line, i, j) \in JsonDocuments
          /\ \A k \in (7..(i - 1)) \cup ((j + 1)..Len(line)) : line[k] = " "

\* the JSON document an event line carries
DocumentOf(line) ==
    CHOOSE d \in JsonDocuments :
        \E i \in 7..Len(line) : SubSeq(line, i, i + Len(d) - 1) = d

RECURSIVE RecordsOf(_)
RecordsOf(ls) ==
    IF ls = <<>> THEN <<>>
    ELSE (IF IsEventLine(Head(ls)) THEN <<DocumentOf(Head(ls))>> ELSE <<>>)
         \o RecordsOf(Tail(ls))

C16_MalformedLinesSkipped ==
    [][/\ yielded' = RecordsOf(lines')
       /\ lines' # lines =>
            /\ sj_pc' = "iter"
            /\ (~IsEventLine(Last(lines')) => yielded' = yielded)
            /\ (IsEventLine(Last(lines')) => Len(yielded') = Len(yielded) + 1)
      ]_vars

C16_Witness ==
    /\ Len(lines) = MaxLines
    /\ Len(yielded) = 2
    /\ yielded[1] # yielded[2]
    /\ ~IsEventLine(lines[2])
    /\ lines[2] # <<>>
    /\ sj_pc = "iter"

(***************************************************************************)
(* C17  The streaming loop is the same fold as process_events: when the    *)
(* loop has ended at the sentinel, the text, the tool calls and the usage  *)
(* of the message it appends are the text, the tool calls and the usage    *)
(* of the assistant Turns process_events returns for the events the loop   *)
(* processed.                                                              *)
(***************************************************************************)
RECURSIVE LastUsage(_)
\* the usage of the last Turn that carries one
LastUsage(msgs) ==
    IF msgs = <<>> THEN None
    ELSE IF Last(msgs).cost_info # None THEN Last(msgs).cost_info
    ELSE LastUsage(SubSeq(msgs, 1, Len(msgs) - 1))

C17_SameFold ==
    (c_pc = "ended" /\ loop.done
       /\ \A i \in DOMAIN loop.all_events : loop.all_events[i].type # "done") =>
        LET out == process_events(loop.all_events) IN
        /\ Concat(AssistantTexts(out)) = Last(messages).content
        /\ AllToolCalls(out) = Last(messages).tool_blocks
        /\ LastUsage(out) = Last(messages).cost_info

(***************************************************************************)
(* C18  The sentinel and cancellation.  As claimed: the worker puts the    *)
(* sentinel when the transport sequence has ended on its own, and puts     *)
(* nothing when it has stopped at the stop flag.                           *)
(***************************************************************************)
C18_Original ==
    [][/\ (w_pc = "sentinel" /\ w_pc' # "sentinel") =>
             event_queue' = Append(event_queue, None)
       /\ (w_pc = "break" /\ w_pc' # "break") => event_queue' = event_queue
      ]_vars

WorkerReturned == w_pc \in {"finished", "stopped", "failed"}

\* C18 as amended: the worker puts the sentinel as its last item whenever it
\* returns, whether the transport sequence ended on its own, the read failed
\* or the stop flag was set; a loop left by cancellation has not read it.
C18_SentinelAlways ==
    [][/\ (w_pc \in {"sentinel", "break", "except"} /\ w_pc' # w_pc) =>
             /\ event_queue' = Append(event_queue, None)
             /\ w_pc' = (CASE w_pc = "sentinel" -> "finished"
                           [] w_pc = "break" -> "stopped"
                           [] w_pc = "except" -> "failed")
       /\ WorkerReturned => (w_pc' = w_pc /\ Len(event_queue') <= Len(event_queue))
       /\ (c_pc' = "ended" /\ stop_event') => ~loop'.done
      ]_vars

C18_Witness ==
    /\ w_pc = "stopped"
    /\ c_pc = "ended"
    /\ event_queue # <<>>
    /\ Last(event_queue) = None
    /\ Len(received) >= 2

(***************************************************************************)
(* C19  Worker stops forwarding on cancellation: once the stop flag is     *)
(* set, no event the worker receives from the transport is put on the      *)
(* queue; the worker leaves its loop at the first event it receives.       *)
(***************************************************************************)
C19_NoForwardAfterStop ==
    [][stop_event =>
          /\ received' # received => (event_queue' = event_queue /\ w_pc' = "break")
          /\ Len(FromTransport(QueuedEvents(event_queue')))
               <= Len(FromTransport(QueuedEvents(event_queue)))
      ]_vars

C19_Witness ==
    /\ stop_event
    /\ w_pc = "break"
    /\ Len(received) >= 2
    /\ QueuedEvents(event_queue) # <<>>
    /\ Len(loop.all_events) + Len(QueuedEvents(event_queue)) = Len(received) - 1

(***************************************************************************)
(* C20  Worker terminates after cancellation: once the stop flag is set,   *)
(* the worker eventually returns, also when the transport stays open and   *)
(* delivers no further event.                                              *)
(***************************************************************************)
C20_WorkerTerminates == stop_event ~> WorkerReturned

Delivered ==
    received \o (IF w_pc \in {"except", "failed"} THEN <<EvError(FailureText)>> ELSE <<>>)

TransportEnded == w_pc \in {"sentinel", "except", "finished", "failed"}

C22_ConsumerTerminates ==
    /\ [][(c_pc' = "ended" /\ ~stop_event') =>
             /\ loop'.all_events = UpToDone(Delivered')
             /\ loop'.batch = <<>> \/ Last(loop'.all_events).type = "done"
             /\ messages' # <<>>
             /\ Last(messages').role = "assistant"
             /\ Last(messages').content = ReconstructedText(loop'.all_events)
             /\ Last(messages').tool_blocks = ReconstructedTools(loop'.all_events)
             /\ ~is_streaming'
             /\ ~cancel_requested'
         ]_vars
    /\ (TransportEnded ~> c_pc = "ended")

C22_Witness ==
    /\ c_pc = "ended"
    /\ ~stop_event
    /\ w_pc = "finished"
    /\ Len(received) = MaxTransport
    /\ loop.all_events = received
    /\ \A i \in DOMAIN received : received[i].type # "done"
    /\ Len(messages) = 2
    /\ ~is_streaming

(***************************************************************************)
(* C23  Live mode yields a Turn at each turn boundary: when the streaming  *)
(* loop processes a result event while text or tool calls are              *)
(* accumulated, a Turn is appended to the conversation at that step and    *)
(* the buffers are empty after it.                                         *)
(***************************************************************************)
\* the step processes a result event of the batch
ProcessesResult ==
    /\ c_pc = "process"
    /\ loop.batch # <<>>
    /\ Head(loop.batch) # None
    /\ Head(loop.batch)[1].type = "result"
    /\ loop'.all_events = Append(loop.all_events, Head(loop.batch)[1])

C23_TurnAtResult ==
    [][(ProcessesResult
          /\ (loop.accumulated_text # <<>> \/ loop.accumulated_tools # <<>>)) =>
            /\ Len(messages') = Len(messages) + 1
            /\ Last(messages').role = "assistant"
            /\ loop'.accumulated_text = <<>>
            /\ loop'.accumulated_tools = <<>>
      ]_vars


(***************************************************************************)
(* C24  Assistant text concatenates: on an assistant event the text of     *)
(* every content block of type text is appended to the current text buffer *)
(* in block order and the text accumulated before the event is kept, in    *)
(* process_events and in the streaming loop alike.                         *)
(***************************************************************************)
C24_AssistantTextConcatenates ==
    [][/\ (pe_pc = "loop" /\ pe_input' # pe_input
           /\ Last(pe_input').type = "assistant") =>
              pe'.current_text
                = pe.current_text \o Concat(BlockTexts(Last(pe_input').content))
       /\ (c_pc = "process" /\ loop'.all_events # loop.all_events
           /\ Last(loop'.all_events).type = "assistant") =>
              loop'.accumulated_text
                = loop.accumulated_text
                    \o Concat(BlockTexts(Last(loop'.all_events).content))
      ]_vars


(***************************************************************************)
(* C25  Result is a clean boundary in process_events: immediately after a  *)
(* result event is processed the text buffer is empty, the tool list is    *)
(* empty and no tool call is pending, so what a result event emitted never *)
(* appears again: the Turns returned are the Turns emitted up to the       *)
(* result event followed by the Turns of the events after it alone.        *)
(***************************************************************************)
CleanBoundaryAt(evs, i, msgs) ==
    msgs = pe_fold(pe_init, SubSeq(evs, 1, i)).messages
             \o process_events(SubSeq(evs, i + 1, Len(evs)))

C25_ResultCleanBoundary ==
    [][/\ (pe_pc = "loop" /\ pe_input' # pe_input /\ Last(pe_input').type = "result") =>
              /\ pe'.current_text = <<>>
              /\ pe'.current_tools = <<>>
              /\ pe'.pending_tool = None
              /\ IsPrefix(pe.messages, pe'.messages)
              /\ Len(pe'.messages) <= Len(pe.messages) + 1
       /\ (pe_pc' = "returned") =>
              \A i \in DOMAIN pe_input' :
                  pe_input'[i].type = "result" =>
                      CleanBoundaryAt(pe_input', i, pe'.messages)
      ]_vars

C25_Witness ==
    /\ pe_pc = "returned"
    /\ Len(pe_input) = 4
    /\ pe_input[1].type = "stream_event" /\ pe_input[1].event.delta_type = "text_delta"
    /\ IsToolStart(pe_input[2])
    /\ pe_input[3].type = "result"
    /\ pe_input[4].type = "stream_event" /\ pe_input[4].event.delta_type = "text_delta"
    /\ Len(pe.messages) = 2
    /\ pe.messages[1].content = pe_input[1].event.text
    /\ Len(pe.messages[1].tool_blocks) = 1
    /\ pe.messages[2].content = pe_input[4].event.text
    /\ pe.messages[2].tool_blocks = <<>>


(***************************************************************************)
(* C26  Done is terminal in process_events: a done event flushes the       *)
(* pending tool call and, if the buffers are non-empty, emits one final    *)
(* assistant Turn without usage; the content flushed at done is emitted in *)
(* exactly that one Turn, and nothing after done adds another Turn for it. *)
(***************************************************************************)
\* the Turn a done event emits for the buffers s
DoneTurn(s) ==
    Turn("assistant", s.current_text,
         s.current_tools \o (IF s.pending_tool # None THEN <<s.pending_tool[1]>> ELSE <<>>),
         None)

HasContent(s) ==
    s.current_text # <<>> \/ s.current_tools # <<>> \/ s.pending_tool # None

C26_DoneTerminal ==
    [][/\ (pe_pc = "loop" /\ pe_input' # pe_input /\ Last(pe_input').type = "done") =>
              /\ pe'.pending_tool = None
              /\ pe'.messages = IF HasContent(pe) THEN Append(pe.messages, DoneTurn(pe))
                                ELSE pe.messages
       /\ (pe_pc = "loop" /\ pe_pc' = "returned"
           /\ pe_input # <<>> /\ Last(pe_input).type = "done") =>
              pe'.messages = pe.messages
      ]_vars


(***************************************************************************)
(* C27  Unclean end loses nothing: when the event list given to            *)
(* process_events ends without a final result or done event, the remaining *)
(* text, the finished tool calls and any still-pending tool call are       *)
(* emitted in a last assistant Turn, so no accumulated content is          *)
(* discarded.                                                              *)
(***************************************************************************)
UncleanEnd(evs) ==
    evs = <<>> \/ Last(evs).type \notin {"result", "done"}

C27_UncleanEndLosesNothing ==
    [][(pe_pc = "loop" /\ pe_pc' = "returned" /\ UncleanEnd(pe_input)) =>
          /\ pe'.messages = IF HasContent(pe) THEN Append(pe.messages, DoneTurn(pe))
                            ELSE pe.messages
          /\ messages' = pe'.messages
      ]_vars

C27_Witness ==
    /\ pe_pc = "returned"
    /\ Len(pe_input) = 4
    /\ pe_input[1].type = "stream_event" /\ pe_input[1].event.delta_type = "text_delta"
    /\ IsToolStart(pe_input[2])
    /\ pe_input[3].type = "user"
    /\ IsToolStart(pe_input[4])
    /\ Len(messages) = 1
    /\ messages[1].content = pe_input[1].event.text
    /\ Len(messages[1].tool_blocks) = 2
    /\ messages[1].tool_blocks[1].result # <<>>
    /\ messages[1].tool_blocks[2].id = pe_input[4].event.id
    /\ messages[1].cost_info = None


(***************************************************************************)
(* C28  Diagnostics do not touch the buffers: an error or stderr event     *)
(* with non-empty text processed by process_events appends a standalone    *)
(* system Turn (warning-prefixed text, no tool calls, no usage) at that    *)
(* position, one with empty text appends nothing, and either leaves the    *)
(* text buffer, the tool list and the pending tool call unchanged.         *)
(***************************************************************************)
ProcessesDiagnostic ==
    /\ pe_pc = "loop"
    /\ pe_input' # pe_input
    /\ Last(pe_input').type \in {"error", "stderr"}

BuffersUntouched ==
    /\ pe'.current_text = pe.current_text
    /\ pe'.current_tools = pe.current_tools
    /\ pe'.pending_tool = pe.pending_tool

WarningTurn(ev) == Turn("system", WarningMarker \o ev.text, <<>>, None)

C28_DiagnosticsKeepBuffers ==
    [][ProcessesDiagnostic =>
          /\ BuffersUntouched
          /\ pe'.messages = IF Last(pe_input').text # <<>>
                            THEN Append(pe.messages, WarningTurn(Last(pe_input')))
                            ELSE pe.messages
      ]_vars

\* the statement as first made: every error or stderr event appends a Turn
C28_Original ==
    [][ProcessesDiagnostic =>
          /\ BuffersUntouched
          /\ pe'.messages = Append(pe.messages, WarningTurn(Last(pe_input')))
      ]_vars

C28_Witness ==
    /\ pe_pc = "loop"
    /\ Len(pe_input) = 4
    /\ pe_input[1].type = "stream_event" /\ pe_input[1].event.delta_type = "text_delta"
    /\ IsToolStart(pe_input[2])
    /\ pe_input[3].type = "error" /\ pe_input[3].text # <<>>
    /\ pe_input[4].type = "stderr" /\ pe_input[4].text = <<>>
    /\ pe.messages = <<WarningTurn(pe_input[3])>>
    /\ pe.current_text = pe_input[1].event.text
    /\ pe.pending_tool # None


(***************************************************************************)
(* C29  Argument fragments without a pending tool are ignored: an          *)
(* input_json_delta processed while no tool call is pending changes        *)
(* neither the text buffer, the tool list, the pending slot nor the        *)
(* output; when a tool call is pending, the fragment is appended to that   *)
(* call's arguments only.  In process_events and in the streaming loop.    *)
(***************************************************************************)
\* what a fragment does to the pending slot p
WithFragment(p, ev) ==
    IF p = None THEN None
    ELSE Some([p[1] EXCEPT !.input_str = p[1].input_str \o ev.event.partial_json])

C29_FragmentNeedsPending ==
    [][/\ (pe_pc = "loop" /\ pe_input' # pe_input /\ IsJsonDelta(Last(pe_input'))) =>
              /\ pe'.current_text = pe.current_text
              /\ pe'.current_tools = pe.current_tools
              /\ pe'.messages = pe.messages
              /\ pe'.pending_tool = WithFragment(pe.pending_tool, Last(pe_input'))
       /\ (c_pc = "process" /\ loop'.all_events # loop.all_events
           /\ IsJsonDelta(Last(loop'.all_events))) =>
              /\ loop'.accumulated_text = loop.accumulated_text
              /\ loop'.accumulated_tools = loop.accumulated_tools
              /\ loop'.cost_info = loop.cost_info
              /\ messages' = messages
              /\ loop'.pending_tool
                   = WithFragment(loop.pending_tool, Last(loop'.all_events))
      ]_vars

C29_Witness ==
    /\ pe_pc = "loop"
    /\ Len(pe_input) = 4
    /\ pe_input[1].type = "stream_event" /\ pe_input[1].event.delta_type = "text_delta"
    /\ IsJsonDelta(pe_input[2])
    /\ IsToolStart(pe_input[3])
    /\ IsJsonDelta(pe_input[4])
    /\ pe.current_text = pe_input[1].event.text
    /\ pe.current_tools = <<>>
    /\ pe.messages = <<>>
    /\ pe.pending_tool
         = Some(ToolCall(pe_input[3].event.name, pe_input[3].event.id,
                         pe_input[4].event.partial_json, <<>>))


(***************************************************************************)
(* C30  Replay records map 1:1 to Turns in order: process_native_events    *)
(* returns exactly one user Turn (text verbatim) for each user record      *)
(* whose content is a non-blank plain string and exactly one assistant     *)
(* Turn for each assistant record with non-empty text or at least one      *)
(* tool_use block, in record order, and no Turn for any other record.      *)
(***************************************************************************)
\* the text of the text blocks of an assistant record
RecordText(rec) ==
    IF rec.type = "assistant" /\ rec.is_list THEN Concat(BlockTexts(rec.blocks)) ELSE <<>>

YieldsTurn(rec) ==
    \/ rec.type = "user" /\ ~rec.is_list /\ ~IsBlank(rec.str)
    \/ rec.type = "assistant" /\ (RecordText(rec) # <<>> \/ ToolUseBlocks(rec) # <<>>)

\* the records of the log that yield a Turn, in log order
YieldingRecords(log) == SelectSeq(log, YieldsTurn)

\* the Turn t is the Turn of the record rec
IsTurnOf(t, rec) ==
    /\ t.role = rec.type
    /\ t.cost_info = None
    /\ rec.type = "user" => (t.content = rec.str /\ t.tool_blocks = <<>>)
    /\ rec.type = "assistant" =>
          /\ t.content = RecordText(rec)
          /\ Len(t.tool_blocks) >= Len(ToolUseBlocks(rec))
          /\ \A k \in DOMAIN ToolUseBlocks(rec) :
                /\ t.tool_blocks[k].name = ToolUseBlocks(rec)[k].name
                /\ t.tool_blocks[k].id = ToolUseBlocks(rec)[k].id

C30_RecordsMapToTurns ==
    nat_pc = "returned" =>
        /\ messages = nat.messages
        /\ Len(messages) = Len(YieldingRecords(nat_input))
        /\ \A m \in DOMAIN messages : IsTurnOf(messages[m], YieldingRecords(nat_input)[m])

C30_Witness ==
    /\ nat_pc = "returned"
    /\ Len(nat_input) = 4
    /\ nat_input[1].type = "user" /\ ~nat_input[1].is_list /\ ~IsBlank(nat_input[1].str)
    /\ nat_input[2].type = "user" /\ ~nat_input[2].is_list /\ IsBlank(nat_input[2].str)
    /\ nat_input[3].type = "queue-operation"
    /\ nat_input[4].type = "assistant" /\ Len(ToolUseBlocks(nat_input[4])) = 1
    /\ RecordText(nat_input[4]) # <<>>
    /\ Len(messages) = 2
    /\ messages[1] = Turn("user", nat_input[1].str, <<>>, None)
    /\ messages[2].role = "assistant"
    /\ messages[2].content = RecordText(nat_input[4])


(***************************************************************************)
(* C31  Replay never drops a tool result: for every replay log, the result *)
(* text of every tool_result block in the log appears as the result of     *)
(* some ToolCall in the Turns returned by process_native_events, including *)
(* when the last returned Turn is a user Turn or when no Turn is returned. *)
(***************************************************************************)
\* some ToolCall of the Turns carries the result text of the block
ResultKept(msgs, block) ==
    \E c \in DOMAIN AllToolCalls(msgs) :
        AllToolCalls(msgs)[c].result = result_content(block)

C31_NoResultDropped ==
    nat_pc = "returned" =>
        \A i \in DOMAIN nat_input :
            \A r \in DOMAIN ToolResultBlocks(nat_input[i]) :
                ResultKept(messages, ToolResultBlocks(nat_input[i])[r])


(***************************************************************************)
(* C32  Replay fallback for unclaimed results: after the full pass, if the *)
(* last returned Turn is an assistant Turn, every result still in the      *)
(* id-to-result map is appended to that Turn as an extra ToolCall with     *)
(* empty arguments, and no other Turn is changed.                          *)
(***************************************************************************)
\* the tool list new is the tool list old followed by one call for each entry
\* of the map d, in the map's order
ExtendedByUnclaimed(old, new, d) ==
    /\ Len(new) = Len(old) + Len(d)
    /\ SubSeq(new, 1, Len(old)) = old
    /\ \A k \in DOMAIN d :
          /\ new[Len(old) + k].id = d[k].key
          /\ new[Len(old) + k].result = d[k].value
          /\ new[Len(old) + k].input_str = <<>>
          /\ new[Len(old) + k].name = "tool"

C32_FallbackOnLastAssistant ==
    [][(nat_pc = "loop" /\ nat_pc' = "returned") =>
          /\ Len(nat'.messages) = Len(nat.messages)
          /\ \A m \in 1..(Len(nat.messages) - 1) : nat'.messages[m] = nat.messages[m]
          /\ (nat.messages # <<>> /\ Last(nat.messages).role = "assistant") =>
                /\ Last(nat'.messages).content = Last(nat.messages).content
                /\ Last(nat'.messages).role = "assistant"
                /\ Last(nat'.messages).cost_info = Last(nat.messages).cost_info
                /\ ExtendedByUnclaimed(Last(nat.messages).tool_blocks,
                                       Last(nat'.messages).tool_blocks,
                                       nat.pending_tool_results)
          /\ (nat.messages # <<>> /\ Last(nat.messages).role # "assistant") =>
                Last(nat'.messages) = Last(nat.messages)
          /\ messages' = nat'.messages
      ]_vars

C32_Witness ==
    /\ nat_pc = "returned"
    /\ Len(nat.pending_tool_results) = 2
    /\ Len(messages) >= 2
    /\ Last(messages).role = "assistant"
    /\ Len(Last(messages).tool_blocks) = 3
    /\ Last(messages).tool_blocks[1].name # "tool"
    /\ Last(messages).tool_blocks[2] = ToolCall("tool", nat.pending_tool_results[1].key, <<>>,
                                                nat.pending_tool_results[1].value)
    /\ Last(messages).tool_blocks[3].id = nat.pending_tool_results[2].key


(***************************************************************************)
(* C33  A replayed result is used at most once: because the lookup removes *)
(* the entry from the id-to-result map, each stored tool_result is         *)
(* attached to at most one ToolCall in the output of                       *)
(* process_native_events, even when several tool_use blocks carry the same *)
(* id.                                                                     *)
(***************************************************************************)
RECURSIVE StoredResults(_, _)
\* the number of tool_result blocks of the log stored under the id
StoredResults(log, id) ==
    IF log = <<>> THEN 0
    ELSE Len(SelectSeq(ToolResultBlocks(Head(log)), LAMBDA b : b.tool_use_id = id))
         + StoredResults(Tail(log), id)

\* the number of ToolCalls of the Turns that carry a result under the id
AttachedResults(msgs, id) ==
    Len(SelectSeq(AllToolCalls(msgs), LAMBDA c : c.id = id /\ c.result # <<>>))

ResultIds == {"1", "2"}

C33_ResultUsedOnce ==
    \A id \in ResultIds :
        /\ AttachedResults(nat.messages, id) <= StoredResults(nat_input, id)
        /\ nat_pc # "loop" => AttachedResults(messages, id) <= StoredResults(nat_input, id)

C33_Witness ==
    /\ nat_pc = "returned"
    /\ Len(nat_input) = 3
    /\ ToolResultBlocks(nat_input[1]) # <<>>
    /\ ToolUseBlocks(nat_input[2]) # <<>>
    /\ nat_input[3] = nat_input[2]
    /\ ToolUseBlocks(nat_input[2])[1].id = ToolResultBlocks(nat_input[1])[1].tool_use_id
    /\ Len(messages) = 2
    /\ messages[1].tool_blocks[1].result = result_content(ToolResultBlocks(nat_input[1])[1])
    /\ messages[2].tool_blocks[1].result = <<>>
    /\ messages[2].tool_blocks[1].id = messages[1].tool_blocks[1].id


(***************************************************************************)
(* C34  Replay folds every session id: after process_native_events         *)
(* returns, every non-empty sessionId carried by any record of the log -   *)
(* whatever the record's type, including ignored types - is in the set of  *)
(* known sessions.                                                         *)
(***************************************************************************)
Known(ss) == {ss[i] : i \in DOMAIN ss}

C34_EverySessionIdFolded ==
    \A i \in DOMAIN nat_input :
        nat_input[i].sessionId # "" => nat_input[i].sessionId \in Known(sessions)

C34_Witness ==
    /\ nat_pc = "returned"
    /\ \E i \in DOMAIN nat_input :
          nat_input[i].type = "queue-operation" /\ nat_input[i].sessionId \in Known(sessions)
    /\ \E i \in DOMAIN nat_input : nat_input[i].sessionId = ""
    /\ \E i \in DOMAIN nat_input :
          nat_input[i].type = "user" /\ nat_input[i].is_list
          /\ nat_input[i].sessionId \in Known(sessions)
    /\ "" \notin Known(sessions)
    /\ Len(sessions) >= 3


(***************************************************************************)
(* The sidebar: disconnect and connect buttons, and the buttons that load  *)
(* a job or a PC session once connected.                                   *)
(***************************************************************************)
\* the session_id_out values of client.list_jobs()
JobHistories == { <<>>, <<"", "s9", "s9">> }

RECURSIVE sessions_of_jobs(_, _)
\* "for job in jobs: sid = job.get('session_id_out'); if sid: add_session(sid)"
sessions_of_jobs(ss, jobs) ==
    IF jobs = <<>> THEN ss
    ELSE sessions_of_jobs(add_session(ss, Head(jobs)), Tail(jobs))

\* disconnect that keeps the selected session id
disconnect_keeps_session_id ==
    /\ \/ entry = "load_job" /\ pe_pc = "returned"
       \/ entry = "load_session" /\ nat_pc \in {"returned", "reparsed"}
       \/ entry = "connected"
    /\ entry' = "disconnected"
    /\ messages' = <<>>
    /\ sessions' = <<>>
    /\ pe_input' = <<>> /\ pe' = pe_init /\ pe_pc' = "idle"
    /\ nat_input' = <<>> /\ nat' = nat_init /\ nat_pc' = "idle" /\ reparsed' = <<>>
    /\ UNCHANGED <<session_id, is_streaming, cancel_requested, stream_vars, sj_vars>>

\* "if disconnect_btn:" between two handlers
disconnect ==
    /\ \/ entry = "load_job" /\ pe_pc = "returned"
       \/ entry = "load_session" /\ nat_pc \in {"returned", "reparsed"}
       \/ entry = "connected"
    /\ entry' = "disconnected"
    /\ messages' = <<>>
    /\ session_id' = None
    /\ sessions' = <<>>
    /\ pe_input' = <<>> /\ pe' = pe_init /\ pe_pc' = "idle"
    /\ nat_input' = <<>> /\ nat' = nat_init /\ nat_pc' = "idle" /\ reparsed' = <<>>
    /\ UNCHANGED <<is_streaming, cancel_requested, stream_vars, sj_vars>>

\* "if connect_btn:" with a successful login
connect(jobs) ==
    /\ entry = "disconnected"
    /\ entry' = "connected"
    /\ sessions' = sessions_of_jobs(sessions, jobs)
    /\ UNCHANGED <<session_id, messages, is_streaming, cancel_requested,
                   pe_vars, nat_vars, stream_vars, sj_vars>>

\* a job button is pressed: process_events starts on the job's events
load_job_button ==
    /\ entry = "connected"
    /\ entry' = "load_job"
    /\ pe_pc' = "loop"
    /\ UNCHANGED <<session_vars, pe_input, pe, nat_vars, stream_vars, sj_vars>>

\* a PC-history button is pressed: process_native_events starts on the log
load_session_button ==
    /\ entry = "connected"
    /\ entry' = "load_session"
    /\ nat_pc' = "loop"
    /\ UNCHANGED <<session_vars, pe_vars, nat_input, nat, reparsed, stream_vars, sj_vars>>

NextSession ==
    \/ NextPE
    \/ NextNative
    \/ disconnect
    \/ \E jobs \in JobHistories : connect(jobs)
    \/ load_job_button
    \/ load_session_button

SpecSession == (InitPE \/ InitNative) /\ [][NextSession]_vars


(***************************************************************************)
(* C35  Session state invariant: across any sequence of decoder steps      *)
(* (system init, result, replay records) and disconnects, the list of      *)
(* known sessions contains no duplicate, it only grows between a connect   *)
(* and the next disconnect, and whenever a decoder has set the most recent *)
(* session id that id is a member of the list.                             *)
(***************************************************************************)
NoDuplicate(ss) == \A i \in DOMAIN ss : \A j \in DOMAIN ss : ss[i] = ss[j] => i = j

\* a step of the loop of process_events or of process_native_events
DecoderStep == pe_input' # pe_input \/ nat_input' # nat_input

C35_SessionStateInvariant ==
    [][/\ NoDuplicate(sessions')
       /\ entry' # "disconnected" => IsPrefix(sessions, sessions')
       /\ (DecoderStep /\ session_id' # session_id /\ entry' # "disconnected") =>
              /\ session_id' # None
              /\ session_id'[1] \in Known(sessions')
       /\ (session_id' # None /\ session_id'[1] # "") =>
              session_id'[1] \in Known(sessions')
      ]_vars

C35_Witness ==
    /\ entry = "load_job"
    /\ pe_pc = "loop"
    /\ Len(sessions) >= 3
    /\ sessions[1] = "s9"
    /\ session_id = Some(Last(sessions))
    /\ \E i \in DOMAIN pe_input : pe_input[i].type = "system"
    /\ \E i \in DOMAIN pe_input : pe_input[i].type = "result"


(***************************************************************************)
(* C36  The worker only produces raw events: no step of stream_worker      *)
(* writes the session correlation state, the message list or the           *)
(* streaming/cancel flags of the UI state; its only effects are puts on    *)
(* the event queue, so these variables change only in steps of the script  *)
(* thread.                                                                 *)
(***************************************************************************)
\* a step of the worker thread: it reads the transport or moves on in its code
WorkerStep == w_pc # "idle" /\ (w_pc' # w_pc \/ received' # received)

\* the queue after the step is the queue before it, or that with one item put
AtMostOnePut ==
    \/ event_queue' = event_queue
    \/ /\ Len(event_queue') = Len(event_queue) + 1
       /\ SubSeq(event_queue', 1, Len(event_queue)) = event_queue

C36_WorkerOnlyPuts ==
    [][/\ WorkerStep =>
              /\ sessions' = sessions
              /\ session_id' = session_id
              /\ messages' = messages
              /\ is_streaming' = is_streaming
              /\ cancel_requested' = cancel_requested
              /\ stop_event' = stop_event
              /\ loop' = loop
              /\ c_pc' = c_pc
              /\ AtMostOnePut
       /\ session_vars' # session_vars => ~WorkerStep
      ]_vars

C36_Witness ==
    /\ w_pc = "failed"
    /\ Len(received) = 2
    /\ event_queue = <<Some(received[2]), Some(EvError(FailureText)), None>>
    /\ c_pc = "top"
    /\ is_streaming
    /\ loop.all_events = <<received[1]>>
    /\ Len(messages) = 1


(***************************************************************************)
(* Several jobs in a row: the chat input is used again after a job.        *)
(***************************************************************************)
MaxJobs == 2   \* prompts submitted in a row

\* the events of a short reply
JobEvents == { EvTextDelta(<<"a">>), EvDone }

\* the prompts submitted so far: each one appended a user message
PromptsSubmitted == Len(SelectSeq(messages, LAMBDA t : t.role = "user"))

\* submit_next_prompt accepting a prompt while a job is streaming
submit_next_prompt_while_streaming ==
    /\ entry = "prompt"
    /\ c_pc # "idle"
    /\ PromptsSubmitted < MaxJobs
    /\ messages' = Append(messages, Turn("user", Prompt, <<>>, None))
    /\ is_streaming' = TRUE
    /\ cancel_requested' = FALSE
    /\ received' = <<>>
    /\ event_queue' = <<>>
    /\ stop_event' = FALSE
    /\ w_pc' = "iter"
    /\ loop' = loop_init
    /\ c_pc' = "top"
    /\ cancel_job_result' = "none"
    /\ UNCHANGED <<entry, sessions, session_id, pe_vars, nat_vars, sj_vars>>

\* lines 1231-1298 in a later script run: the chat input, enabled while
\* is_streaming is false, returns a prompt; the job gets a new queue, a new
\* stop flag and a new worker thread, and the worker of the job before, if it
\* is still running, keeps the queue and the flag it was started with
submit_next_prompt ==
    /\ entry = "prompt"
    /\ c_pc # "idle"
    /\ ~is_streaming
    /\ PromptsSubmitted < MaxJobs
    /\ messages' = Append(messages, Turn("user", Prompt, <<>>, None))
    /\ is_streaming' = TRUE
    /\ cancel_requested' = FALSE
    /\ received' = <<>>
    /\ event_queue' = <<>>
    /\ stop_event' = FALSE
    /\ w_pc' = "iter"
    /\ loop' = loop_init
    /\ c_pc' = "top"
    /\ cancel_job_result' = "none"
    /\ UNCHANGED <<entry, sessions, session_id, pe_vars, nat_vars, sj_vars>>

NextJobs ==
    \/ submit_prompt
    \/ submit_prompt_fails
    \/ submit_next_prompt
    \/ \E ev \in JobEvents : worker_forward(ev)
    \/ worker_close
    \/ worker_except
    \/ worker_sentinel
    \/ worker_except_sentinel
    \/ cancel_click("ok")
    \/ consumer_cancel
    \/ consumer_check
    \/ consumer_poll
    \/ consumer_process
    \/ consumer_epilogue

SpecJobs == InitStream /\ [][NextJobs]_vars


(***************************************************************************)
(* C37  One live stream at a time: while is_streaming is true no new       *)
(* prompt can be submitted, so at most one streaming loop is active at any *)
(* time and a second job is never started before the first one's loop has  *)
(* ended.  The worker of the first job may still be running then.          *)
(***************************************************************************)
\* the step accepts a prompt and starts a job
JobStarts ==
    /\ Len(messages') = Len(messages) + 1
    /\ Last(messages').role = "user"
    /\ c_pc' = "top"

LoopActive == c_pc \in {"top", "poll", "process", "epilogue"}

C37_OneLoopAtATime ==
    [][/\ JobStarts => (~is_streaming /\ ~LoopActive)
       /\ Len(messages') > Len(messages) /\ Last(messages').role = "user" => ~is_streaming
       /\ is_streaming' <=> LoopActive'
      ]_vars

\* the statement as first made: at most one worker/consumer pair is active,
\* so the worker of the job before has returned when a job starts
C37_Original ==
    [][JobStarts => (~is_streaming /\ ~LoopActive /\ (w_pc = "idle" \/ WorkerReturned))]_vars

C37_Witness ==
    /\ PromptsSubmitted = 2
    /\ Len(messages) = 3
    /\ messages[2].role = "assistant" /\ messages[2].content # <<>>
    /\ is_streaming
    /\ c_pc = "process"
    /\ loop.all_events # <<>>
    /\ w_pc = "iter"


(***************************************************************************)
(* C38  Failed remote notification is not escalated: when the cancel       *)
(* request to the remote side fails, the local cancellation flag set just  *)
(* before stays set, no error propagates to the caller, and the consumer   *)
(* still stops on its next poll.                                           *)
(***************************************************************************)
\* the step is a cancel click whose cancel_job call raised
NotificationFails == cancel_job_result' = "raised" /\ cancel_job_result # "raised"

C38_FailedNotificationNotEscalated ==
    /\ [][/\ NotificationFails =>
                /\ cancel_requested'
                /\ is_streaming' = is_streaming
                /\ messages' = messages
                /\ c_pc' = c_pc /\ loop' = loop
                /\ w_pc' = w_pc /\ event_queue' = event_queue
                /\ stop_event' = stop_event
          /\ (cancel_job_result' = "raised" /\ is_streaming') => cancel_requested'
          /\ (cancel_job_result = "raised" /\ c_pc = "top" /\ c_pc' # c_pc) =>
                /\ stop_event' /\ c_pc' = "epilogue"
                /\ loop' = loop /\ event_queue' = event_queue
         ]_vars
    /\ ((cancel_job_result = "raised" /\ is_streaming) ~> c_pc = "ended")

C38_Witness ==
    /\ cancel_job_result = "raised"
    /\ c_pc = "ended"
    /\ stop_event
    /\ ~is_streaming
    /\ loop.all_events # <<>>
    /\ w_pc = "iter"
    /\ Len(messages) = 2


(***************************************************************************)
(* C39  Exactly one sentinel, always last: in every execution of           *)
(* stream_worker that finishes (transport closed, cancellation observed,   *)
(* or exception), the worker puts the end-of-stream sentinel on the queue  *)
(* exactly once and puts nothing after it.                                 *)
(***************************************************************************)
\* the items the step puts on the queue (the consumer's drain empties it)
PutInStep ==
    IF IsPrefix(event_queue, event_queue')
    THEN SubSeq(event_queue', Len(event_queue) + 1, Len(event_queue'))
    ELSE <<>>

SentinelsIn(items) == Len(SelectSeq(items, LAMBDA x : x = None))

C39_OneSentinelLast ==
    [][/\ (~WorkerReturned /\ WorkerReturned') => PutInStep = <<None>>
       /\ (~WorkerReturned /\ ~WorkerReturned') => SentinelsIn(PutInStep) = 0
       /\ WorkerReturned => (WorkerReturned' /\ PutInStep = <<>>)
       /\ SentinelsIn(event_queue') <= 1
       /\ SentinelsIn(event_queue') = 1 => (WorkerReturned' /\ Last(event_queue') = None)
       /\ SentinelsIn(loop'.batch) <= 1
      ]_vars

C39_Witness ==
    /\ w_pc = "finished"
    /\ c_pc = "poll"
    /\ Len(received) = 2
    /\ event_queue = <<Some(received[1]), Some(received[2]), None>>
    /\ loop.all_events = <<>>


(***************************************************************************)
(* C40  Streaming flags are scoped to one job: cancel_requested is false   *)
(* whenever a streaming loop begins, and after the loop ends by any route  *)
(* (sentinel, done event or cancellation) both is_streaming and            *)
(* cancel_requested are false, so a cancellation requested for one job     *)
(* never stops a later job.                                                *)
(***************************************************************************)
C40_FlagsScopedToJob ==
    [][/\ JobStarts => (~cancel_requested' /\ ~stop_event' /\ is_streaming')
       /\ c_pc' \in {"ended", "idle", "stopped"} => (~is_streaming' /\ ~cancel_requested')
       /\ (cancel_requested' \/ stop_event') => cancel_job_result' # "none"
       /\ (c_pc = "top" /\ c_pc' = "epilogue") => (cancel_requested /\ cancel_job_result # "none")
      ]_vars

C40_Witness ==
    /\ PromptsSubmitted = 2
    /\ Len(messages) = 4
    /\ messages[2].content = <<>>
    /\ messages[4].content # <<>>
    /\ c_pc = "ended"
    /\ loop.done
    /\ Last(loop.all_events).type = "done"
    /\ ~stop_event
    /\ cancel_job_result = "none"
    /\ ~is_streaming /\ ~cancel_requested

====
